---- MODULE Spec2Model ----
(***************************************************************************)
(* A state-machine model of the Artify raster editing core:                *)
(*   - src/components/PhotoEditor.tsx : layer stack, history, crop,        *)
(*     freehand draw tool, mask-guided "AI brush" (specification Spec);    *)
(*   - src/components/Sketchbook.tsx  : shape tool state machine           *)
(*     (specification SpecSB).                                             *)
(* React state is modelled by one variable per useState / useRef; an       *)
(* event handler is one atomic action that reads the state of the render   *)
(* it was created in.  An async handler keeps the values it closed over    *)
(* when it was invoked (the record aiApply) and uses them on completion.   *)
(* Lengths of the PhotoEditor are fixed-point numbers in 1/Den pixel.      *)
(***************************************************************************)
EXTENDS Integers, Sequences, FiniteSets, TLC

\* ----------------------------------------------------------------- bounds
Den == 2            \* fixed-point denominator (units per pixel)
MaxHistory == 3     \* cap on the number of PhotoEditor history entries
MaxIds == 1         \* cap on the number of uuid() calls, see FewIds
MaxOverlays == 2    \* cap on the number of uuid() calls in SpecSelect
MaxPath == 1        \* cap on the number of pointer-moves in one stroke
MaxMaskOps == 2     \* cap on the accumulated MaskOperations
MaxCoord == 50     \* cap on |x|, |y| of a dragged layer, in pixels

Px(n) == n * Den

\* ------------------------------------------------- PhotoEditor: constants
NULL == "null"                          \* null of selectedLayerId / activeTool / editorMode
BACKGROUND == "background"
StickerSize == 50
StickerScale10 == 20                    \* scale 2, in tenths
MinCrop == 50

ManualTools == {"adjust", "filter", "crop", "text", "sticker", "draw", "layers"}
AiTools == {"ai_object", "ai_enhance", "ai_brush"}

DEFAULT_ADJUSTMENTS ==
  [brightness |-> 100, contrast |-> 100, saturation |-> 100,
   blur |-> 0, hue |-> 0, sepia |-> 0]
NoFilter == [brightness |-> -1, contrast |-> -1, saturation |-> -1,
             blur |-> -1, hue |-> -1, sepia |-> -1]   \* style.filter undefined

\* A layer's style is kept as two fields: filter is style.filter and style
\* holds the rest of the style object (color, fontSize, fontFamily).
NoStyle == [color |-> "", fontSize |-> 0, fontFamily |-> ""]

\* ----------------------------------------------------- PhotoEditor: inputs
UploadSizes == {[width |-> Px(120), height |-> Px(100)]}
ImportSizes == {[width |-> Px(80), height |-> Px(40)]}
P10 == [x |-> Px(10), y |-> Px(10)]
P50 == [x |-> Px(50), y |-> Px(50)]
\* A layer drag presses on the sticker and moves away; a stroke runs the
\* other way.
DragDown == {P50}
DragTo == {P10}
StrokeDown == {P10}
StrokeTo == {P50}
NoPoint == [x |-> -1, y |-> -1]         \* null of dragStartRef
NoRect == [x |-> -1, y |-> -1, width |-> -1, height |-> -1]   \* null of cropRect
\* Pointer displacements of a crop drag, already divided by zoomLevel.
CropDeltas == {[dx |-> Px(20) + 1, dy |-> Px(10)]}
CropHandles == {"tl"}
\* The aspect presets of the crop panel; Free is 0:0.
AspectRatios == {[w |-> 0, h |-> 0], [w |-> 9, h |-> 16], [w |-> 16, h |-> 9],
                 [w |-> 1, h |-> 1], [w |-> 3, h |-> 4], [w |-> 4, h |-> 3]}

VARIABLES
  editorMode, activeTool, layers, layersRef, selectedLayerId,
  history, historyIndex, canvasSize,
  isDrawing, currentPath,
  aiMaskOperations, aiActivePath, isAiProcessingBrush, aiApply, alertMsg,
  cropRect, cropDragRef, dragStartRef, isDraggingRef,
  uuidCount,
  rt, gestureSize, lastDelete, stroke, cropBase, lastSave, drag,   \* observers
  \* Sketchbook
  sbActiveTool, sbZoom, sbCanvasSize, sbActiveShape, sbDragMode, sbDragOffset,
  sbIsDrawing, sbStartPos, sbLastPos, sbPixels, sbHistory, sbHistoryIndex,
  sbLayers, sbBackgroundColor, sbShowResumeDialog, sbMounted,
  sbActiveLayerId,                \* sbPixels is the canvas of this layer
  sbOthers,                       \* the canvases of the other layers
  sbTimers, saveTimeoutRef,       \* pending autosave timers, the last handle
  sbPc,                           \* the asynchronous handlers under way
  sbUncaught,                     \* handlers whose promise was rejected
  draftStore,                     \* the object store 'drafts' of ArtifyDB
  sbScript,                       \* observer, see ScriptAfter
  sbSinceChange,                  \* observer, see AutosaveEffect
  draftLog,                       \* observer, see LogAfter
  sbTaken,                        \* observer, see TakenAfter
  \* generateImage
  genPc,                          \* where the call under way stands
  genConfig,                      \* its GenerationConfig
  genTimer,                       \* the global timeout is pending
  genAborted,                     \* controller.signal.aborted
  genLog,                         \* the providers attempted, in order
  genResult                       \* what the call returned or threw

peVars == <<editorMode, activeTool, layers, layersRef, selectedLayerId,
            history, historyIndex, canvasSize, isDrawing, currentPath,
            aiMaskOperations, aiActivePath, isAiProcessingBrush, aiApply,
            alertMsg, cropRect, cropDragRef, dragStartRef, isDraggingRef,
            uuidCount, rt, gestureSize, lastDelete, stroke, cropBase,
            lastSave, drag>>

sbVars == <<sbActiveTool, sbZoom, sbCanvasSize, sbActiveShape, sbDragMode,
            sbDragOffset, sbIsDrawing, sbStartPos, sbLastPos, sbPixels,
            sbHistory, sbHistoryIndex, sbLayers, sbBackgroundColor,
            sbShowResumeDialog, sbMounted, sbTimers, saveTimeoutRef, sbPc,
            sbUncaught, draftStore, sbScript, sbSinceChange, draftLog,
            sbActiveLayerId, sbOthers, sbTaken>>

genVars == <<genPc, genConfig, genTimer, genAborted, genLog, genResult>>

vars == <<peVars, sbVars, genVars>>

\* ------------------------------------------------------------ helpers
Min2(a, b) == IF a < b THEN a ELSE b
Max2(a, b) == IF a > b THEN a ELSE b

\* Math.round of a fixed-point length, as a fixed-point length
\* (JavaScript rounds halves towards +infinity).
Round(v) == ((2 * v + Den) \div (2 * Den)) * Den

HasLayer(ls, id) == \E i \in 1..Len(ls) : ls[i].id = id

\* uuid(): a fresh identifier, never "background" (9 base-36 characters).
UuidNames == <<"u1", "u2", "u3", "u4", "u5", "u6">>
uuid == UuidNames[uuidCount + 1]

\* Every setLayers(...) of a newly built array yields a new array identity;
\* saveHistory compares identities (===).  The identity is the least number
\* not held by the live stack, a history entry or a pending closure.
RefsOf(h) == {h[i].ref : i \in 1..Len(h)}
UsedRefs == {layersRef} \cup RefsOf(history) \cup {aiApply.layersRef}
            \cup RefsOf(aiApply.history)
NewRef == CHOOSE n \in 1..(2 * MaxHistory + 4) :
            /\ n \notin UsedRefs
            /\ \A m \in 1..(n - 1) : m \in UsedRefs

MainUi == editorMode # NULL /\ Len(layers) > 0

\* ------------------------------------------------------------ layers
bgLayer(size, src) ==
  [id |-> BACKGROUND, type |-> "image", x |-> 0, y |-> 0,
   width |-> size.width, height |-> size.height, rotation |-> 0,
   scale |-> 10, visible |-> TRUE,
   content |-> [src |-> src, points |-> <<>>],
   filter |-> DEFAULT_ADJUSTMENTS, style |-> NoStyle]

stickerLayer(id, sticker) ==
  [id |-> id, type |-> "sticker",
   x |-> canvasSize.width \div 2 - Px(StickerSize) \div 2,
   y |-> canvasSize.height \div 2 - Px(StickerSize) \div 2,
   width |-> Px(StickerSize), height |-> Px(StickerSize), rotation |-> 0,
   scale |-> StickerScale10, visible |-> TRUE,
   content |-> [src |-> sticker, points |-> <<>>],
   filter |-> NoFilter, style |-> NoStyle]

drawingLayer(id, path) ==
  [id |-> id, type |-> "drawing", x |-> 0, y |-> 0,
   width |-> canvasSize.width, height |-> canvasSize.height, rotation |-> 0,
   scale |-> 10, visible |-> TRUE,
   content |-> [src |-> "", points |-> path],
   filter |-> NoFilter, style |-> NoStyle]

\* ------------------------------------------------------------ history
HistoryEntry(ls, ref, size) == [layers |-> ls, ref |-> ref, canvasSize |-> size]

\* A saveHistory without the early return (a variant of IsDuplicate).
NeverDuplicate(h, hi, ref, size) == FALSE

\* saveHistory's early return: the current entry holds the same array and size.
IsDuplicate(h, hi, ref, size) ==
  /\ hi >= 0
  /\ hi + 1 <= Len(h)
  /\ h[hi + 1].ref = ref
  /\ h[hi + 1].canvasSize.width = size.width
  /\ h[hi + 1].canvasSize.height = size.height

\* history.slice(0, historyIndex + 1)
Slice(h, hi) == SubSeq(h, 1, Min2(Max2(hi + 1, 0), Len(h)))

\* The history saveHistory(newLayers, newSize) leaves, called in a render
\* whose state is (h, hi).
SavedHistory(h, hi, ls, ref, size) ==
  IF IsDuplicate(h, hi, ref, size) THEN h
  ELSE Append(Slice(h, hi), HistoryEntry(ls, ref, size))

SavedIndex(h, hi, ls, ref, size) ==
  IF IsDuplicate(h, hi, ref, size) THEN hi
  ELSE Len(SavedHistory(h, hi, ls, ref, size)) - 1

saveHistory(ls, ref, size) ==
  /\ history' = SavedHistory(history, historyIndex, ls, ref, size)
  /\ historyIndex' = SavedIndex(history, historyIndex, ls, ref, size)

\* The model's cap: an action that may append an entry is taken only while
\* the history it leaves is within MaxHistory.
RoomFor(h, hi) == Len(Slice(h, hi)) < MaxHistory

\* A crop rect that outlives the crop tool (a variant of CropRectFor).
CropRectKept(tool, size) ==
  [x |-> 0, y |-> 0, width |-> size.width, height |-> size.height]

\* useEffect on [activeTool, canvasSize]
CropRectFor(tool, size) ==
  IF tool = "crop"
  THEN [x |-> 0, y |-> 0, width |-> size.width, height |-> size.height]
  ELSE NoRect

CropEffect(tool, size) ==
  IF tool # activeTool \/ size # canvasSize
  THEN cropRect' = CropRectFor(tool, size)
  ELSE UNCHANGED cropRect

modeVars == <<editorMode, activeTool>>
stackVars == <<layers, layersRef>>
histVars == <<history, historyIndex>>
drawVars == <<isDrawing, currentPath>>
maskVars == <<aiMaskOperations, aiActivePath>>
aiVars == <<isAiProcessingBrush, aiApply>>
cropVars == <<cropRect, cropDragRef>>
dragVars == <<dragStartRef, isDraggingRef>>

NoApply == [pc |-> "idle", layers |-> <<>>, layersRef |-> 0, history |-> <<>>,
            historyIndex |-> -1, canvasSize |-> [width |-> 0, height |-> 0],
            target |-> NULL]

NoCropDrag == [startRect |-> NoRect, handle |-> NULL]

NoSize == [width |-> -1, height |-> -1]

\* No run of edits is being followed.
NoRun == [phase |-> "void", n |-> 0, k |-> 0, layers |-> <<>>, canvasSize |-> NoSize]

\* No stroke of the draw tool is being followed.
NoStroke == [phase |-> "void", points |-> <<>>, layers |-> <<>>, history |-> <<>>]

\* No crop session is being followed.
NoBase == [phase |-> "void", changed |-> FALSE, layers |-> <<>>,
           canvasSize |-> NoSize, history |-> <<>>, historyIndex |-> -1]

\* No call of saveHistory is being followed.
NoDrag == [phase |-> "none", moved |-> FALSE, history |-> <<>>, historyIndex |-> -1]
NoSave == [kind |-> "none", history |-> <<>>, historyIndex |-> -1]

\* ------------------------------------------------------- initial state
InitPE ==
  /\ editorMode = NULL
  /\ activeTool = NULL
  /\ layers = <<>>
  /\ layersRef = 0
  /\ selectedLayerId = NULL
  /\ history = <<>>
  /\ historyIndex = -1
  /\ canvasSize = [width |-> Px(800), height |-> Px(600)]
  /\ isDrawing = FALSE
  /\ currentPath = <<>>
  /\ aiMaskOperations = <<>>
  /\ aiActivePath = <<>>
  /\ isAiProcessingBrush = FALSE
  /\ aiApply = NoApply
  /\ alertMsg = NULL
  /\ cropRect = NoRect
  /\ cropDragRef = NoCropDrag
  /\ dragStartRef = NoPoint
  /\ isDraggingRef = FALSE
  /\ uuidCount = 0
  /\ lastDelete = NULL
  /\ rt = NoRun
  /\ gestureSize = NoSize
  /\ stroke = NoStroke
  /\ cropBase = NoBase
  /\ lastSave = NoSave
  /\ drag = NoDrag

\* useEffect on [editorMode]: outside the AI mode the mask is dropped.
MaskEffect(mode) ==
  IF mode # "ai" /\ mode # editorMode
  THEN aiMaskOperations' = <<>> /\ aiActivePath' = <<>>
  ELSE UNCHANGED maskVars

\* ------------------------------------------- mode selection and import
\* The two cards of the mode-selection screen.
SetEditorMode(m) ==
  /\ editorMode = NULL
  /\ editorMode' = m
  /\ MaskEffect(m)
  /\ UNCHANGED <<activeTool, stackVars, selectedLayerId, histVars, canvasSize,
                 drawVars, aiVars, cropVars, dragVars, uuidCount>>

\* The back arrow of the upload screen.
BackToModes ==
  /\ editorMode # NULL
  /\ Len(layers) = 0
  /\ editorMode' = NULL
  /\ MaskEffect(NULL)
  /\ UNCHANGED <<activeTool, stackVars, selectedLayerId, histVars, canvasSize,
                 drawVars, aiVars, cropVars, dragVars, uuidCount>>

\* The X of the editor header.
CloseEditor ==
  /\ MainUi
  /\ layers' = <<>>
  /\ layersRef' = NewRef
  /\ history' = <<>>
  /\ editorMode' = NULL
  /\ MaskEffect(NULL)
  /\ UNCHANGED <<activeTool, selectedLayerId, historyIndex, canvasSize,
                 drawVars, aiVars, cropVars, dragVars, uuidCount>>

UploadTool(mode) == IF mode = "manual" THEN "adjust" ELSE NULL

handleImageUpload(size) ==
  /\ editorMode # NULL
  /\ Len(layers) = 0
  /\ canvasSize' = size
  /\ layers' = <<bgLayer(size, "upload")>>
  /\ layersRef' = NewRef
  /\ history' = <<HistoryEntry(layers', layersRef', size)>>
  /\ historyIndex' = 0
  /\ activeTool' = UploadTool(editorMode)
  /\ CropEffect(activeTool', size)
  /\ UNCHANGED <<editorMode, selectedLayerId, drawVars, maskVars, aiVars,
                 cropDragRef, dragVars, uuidCount>>

\* A toolbar button: the tools of the current mode; clicking the active one
\* closes its panel.
ToolbarTools == IF editorMode = "ai" THEN AiTools ELSE ManualTools

ToolbarClick(tool) ==
  /\ MainUi
  /\ tool \in ToolbarTools
  /\ activeTool' = (IF activeTool = tool THEN NULL ELSE tool)
  /\ CropEffect(activeTool', canvasSize)
  /\ UNCHANGED <<editorMode, stackVars, selectedLayerId, histVars, canvasSize,
                 drawVars, maskVars, aiVars, cropDragRef, dragVars, uuidCount>>

\* ------------------------------------------------------- adding layers
AddLayer(layer, name) ==
  /\ uuidCount < MaxOverlays
  /\ RoomFor(history, historyIndex)
  /\ layers' = Append(layers, layer)
  /\ layersRef' = NewRef
  /\ saveHistory(layers', layersRef', canvasSize)
  /\ selectedLayerId' = layer.id
  /\ uuidCount' = uuidCount + 1

addStickerLayer(sticker) ==
  /\ MainUi
  /\ activeTool = "sticker"
  /\ AddLayer(stickerLayer(uuid, sticker), "addStickerLayer")
  /\ UNCHANGED <<modeVars, canvasSize, drawVars, maskVars, aiVars, cropVars,
                 dragVars>>

\* addTextLayer: the text box's content and its measured width are inputs;
\* an empty (trimmed) text returns early.
TextWidths == {Px(40)}
NewTexts == {"", "hi"}
brushColor == "#6C63FF"

textLayer(id, text, textWidth) ==
  [id |-> id, type |-> "text",
   x |-> (canvasSize.width - textWidth) \div 2,
   y |-> canvasSize.height \div 2,
   width |-> textWidth, height |-> Px(40), rotation |-> 0,
   scale |-> 10, visible |-> TRUE,
   content |-> [src |-> text, points |-> <<>>],
   filter |-> NoFilter,
   style |-> [color |-> brushColor, fontSize |-> 40, fontFamily |-> "Arial"]]

addTextLayer(text, textWidth) ==
  /\ MainUi
  /\ activeTool = "text"
  /\ IF text = ""
     THEN UNCHANGED <<stackVars, histVars, selectedLayerId, uuidCount>>
     ELSE AddLayer(textLayer(uuid, text, textWidth), "addTextLayer")
  /\ UNCHANGED <<modeVars, canvasSize, drawVars, maskVars, aiVars, cropVars,
                 dragVars>>

importLayer(id, img) ==
  [id |-> id, type |-> "image",
   x |-> canvasSize.width \div 2 - img.width \div 4,
   y |-> canvasSize.height \div 2 - img.height \div 4,
   width |-> img.width \div 2, height |-> img.height \div 2, rotation |-> 0,
   scale |-> 10, visible |-> TRUE,
   content |-> [src |-> "import", points |-> <<>>],
   filter |-> DEFAULT_ADJUSTMENTS, style |-> NoStyle]

ImportTool == IF editorMode = "manual" THEN "adjust" ELSE activeTool

handleImportLayer(img) ==
  /\ MainUi
  /\ editorMode = "manual"
  /\ AddLayer(importLayer(uuid, img), "handleImportLayer")
  /\ activeTool' = ImportTool
  /\ CropEffect(activeTool', canvasSize)
  /\ UNCHANGED <<editorMode, canvasSize, drawVars, maskVars, aiVars,
                 cropDragRef, dragVars>>

\* ------------------------------------------------------ deleting layers
\* deleteSelectedLayer's own guard.  The panels render its button only for a
\* selected overlay; the handler is modelled as callable with any selection,
\* where it is a no-op.
\* A delete that spares no layer (a variant of CanDeleteSelected).
CanDeleteAny(sel) == sel # NULL

CanDeleteSelected(sel) == sel # NULL /\ sel # BACKGROUND

WithoutLayer(ls, id) == SelectSeq(ls, LAMBDA l : l.id # id)

deleteSelectedLayer ==
  /\ MainUi
  /\ activeTool = "adjust"
  /\ IF CanDeleteSelected(selectedLayerId)
     THEN /\ RoomFor(history, historyIndex)
          /\ layers' = WithoutLayer(layers, selectedLayerId)
          /\ layersRef' = NewRef
          /\ saveHistory(layers', layersRef', canvasSize)
          /\ selectedLayerId' = NULL
     ELSE UNCHANGED <<stackVars, histVars, selectedLayerId>>
  /\ UNCHANGED <<modeVars, canvasSize, drawVars, maskVars, aiVars, cropVars,
                 dragVars, uuidCount>>

\* A delete control on every row (a variant of HasDeleteControl).
AnyRow(l) == l.type # ""

\* The layers panel renders a delete control for these rows only.
HasDeleteControl(l) == l.id # BACKGROUND

LayersPanelDelete(i) ==
  /\ MainUi
  /\ activeTool = "layers"
  /\ i \in 1..Len(layers)
  /\ HasDeleteControl(layers[i])
  /\ RoomFor(history, historyIndex)
  /\ layers' = WithoutLayer(layers, layers[i].id)
  /\ layersRef' = NewRef
  /\ saveHistory(layers', layersRef', canvasSize)
  /\ UNCHANGED <<modeVars, selectedLayerId, canvasSize, drawVars, maskVars,
                 aiVars, cropVars, dragVars, uuidCount>>

LayersPanelSelect(i) ==
  /\ MainUi
  /\ activeTool = "layers"
  /\ i \in 1..Len(layers)
  /\ selectedLayerId' = layers[i].id
  /\ UNCHANGED <<modeVars, stackVars, histVars, canvasSize, drawVars,
                 maskVars, aiVars, cropVars, dragVars, uuidCount>>

ToggledVisible(ls, id) ==
  [j \in 1..Len(ls) |->
     IF ls[j].id = id THEN [ls[j] EXCEPT !.visible = ~ls[j].visible] ELSE ls[j]]

LayersPanelToggle(i) ==
  /\ MainUi
  /\ activeTool = "layers"
  /\ i \in 1..Len(layers)
  /\ RoomFor(history, historyIndex)
  /\ layers' = ToggledVisible(layers, layers[i].id)
  /\ layersRef' = NewRef
  /\ saveHistory(layers', layersRef', canvasSize)
  /\ UNCHANGED <<modeVars, selectedLayerId, canvasSize, drawVars, maskVars,
                 aiVars, cropVars, dragVars, uuidCount>>

\* ---------------------------------------------------------- undo / redo
CanUndo(h, hi) == hi > 0

\* A redo that stops one entry short (a variant of CanRedo).
CanRedoShort(h, hi) == hi < Len(h) - 2

CanRedo(h, hi) == hi < Len(h) - 1

\* A restore that moves the index only (a variant of Restore).
RestoreIndexOnly(i) ==
  /\ historyIndex' = i
  /\ UNCHANGED <<layers, layersRef, canvasSize, cropRect, history>>

Restore(i) ==
  /\ historyIndex' = i
  /\ layers' = history[i + 1].layers
  /\ layersRef' = history[i + 1].ref
  /\ canvasSize' = history[i + 1].canvasSize
  /\ CropEffect(activeTool, canvasSize')
  /\ UNCHANGED history

handleUndo ==
  /\ MainUi
  /\ IF CanUndo(history, historyIndex)
     THEN Restore(historyIndex - 1)
     ELSE UNCHANGED <<stackVars, histVars, canvasSize, cropRect>>
  /\ UNCHANGED <<modeVars, selectedLayerId, drawVars, maskVars, aiVars,
                 cropDragRef, dragVars, uuidCount>>

handleRedo ==
  /\ MainUi
  /\ IF CanRedo(history, historyIndex)
     THEN Restore(historyIndex + 1)
     ELSE UNCHANGED <<stackVars, histVars, canvasSize, cropRect>>
  /\ UNCHANGED <<modeVars, selectedLayerId, drawVars, maskVars, aiVars,
                 cropDragRef, dragVars, uuidCount>>


\* ------------------------------------------------------ pointer events
\* handlePointerDown's hit box of a layer (axis-aligned, scaled from x, y).
InHitBox(l, p) ==
  /\ p.x >= l.x
  /\ 10 * (p.x - l.x) <= l.width * l.scale
  /\ p.y >= l.y
  /\ 10 * (p.y - l.y) <= l.height * l.scale

Hittable(l, p) == l.visible /\ l.id # BACKGROUND /\ InHitBox(l, p)

\* A loop that runs from the bottom of the stack (a variant of TopHit).
BottomHit(ls, p) ==
  IF \E i \in 1..Len(ls) : Hittable(ls[i], p)
  THEN CHOOSE i \in 1..Len(ls) :
         /\ Hittable(ls[i], p)
         /\ \A j \in 1..(i - 1) : ~Hittable(ls[j], p)
  ELSE 0

\* Index of the layer the loop from the top of the stack returns, 0 if none.
TopHit(ls, p) ==
  IF \E i \in 1..Len(ls) : Hittable(ls[i], p)
  THEN CHOOSE i \in 1..Len(ls) :
         /\ Hittable(ls[i], p)
         /\ \A j \in (i + 1)..Len(ls) : ~Hittable(ls[j], p)
  ELSE 0

SelectTool == IF editorMode = "manual" /\ activeTool # "adjust" THEN "adjust" ELSE activeTool

handlePointerDown(p) ==
  /\ MainUi
  /\ IF isAiProcessingBrush \/ activeTool = "crop"
     THEN UNCHANGED <<activeTool, selectedLayerId, drawVars, maskVars,
                      dragStartRef, cropRect>>
     ELSE IF activeTool = "ai_brush"
     THEN /\ isDrawing' = TRUE
          /\ aiActivePath' = <<p>>
          /\ UNCHANGED <<activeTool, selectedLayerId, currentPath,
                         aiMaskOperations, dragStartRef, cropRect>>
     ELSE IF activeTool = "draw"
     THEN /\ isDrawing' = TRUE
          /\ currentPath' = <<p>>
          /\ UNCHANGED <<activeTool, selectedLayerId, maskVars, dragStartRef,
                         cropRect>>
     ELSE IF TopHit(layers, p) # 0
     THEN /\ selectedLayerId' = layers[TopHit(layers, p)].id
          /\ dragStartRef' = p
          /\ activeTool' = SelectTool
          /\ CropEffect(activeTool', canvasSize)
          /\ UNCHANGED <<drawVars, maskVars>>
     ELSE /\ selectedLayerId' = NULL
          /\ UNCHANGED <<activeTool, drawVars, maskVars, dragStartRef, cropRect>>
  /\ UNCHANGED <<editorMode, stackVars, histVars, canvasSize, aiVars,
                 cropDragRef, isDraggingRef, uuidCount>>

\* The geometric centre of a layer, about which renderCanvas rotates and
\* scales it.
CenterOf(l) == [x |-> l.x + l.width \div 2, y |-> l.y + l.height \div 2]

\* ---- crop rectangle drag (handleCropPointerMove)
HasL(h) == h \in {"tl", "bl"}
HasR(h) == h \in {"tr", "br"}
HasT(h) == h \in {"tl", "tr"}
HasB(h) == h \in {"bl", "br"}

DraggedRect(r, h, d) ==
  IF h = "move"
  THEN [r EXCEPT !.x = r.x + d.dx, !.y = r.y + d.dy]
  ELSE [x |-> IF HasL(h) THEN r.x + d.dx ELSE r.x,
        y |-> IF HasT(h) THEN r.y + d.dy ELSE r.y,
        width |-> IF HasL(h) THEN r.width - d.dx
                  ELSE IF HasR(h) THEN r.width + d.dx ELSE r.width,
        height |-> IF HasT(h) THEN r.height - d.dy
                   ELSE IF HasB(h) THEN r.height + d.dy ELSE r.height]

MinSized(r) ==
  [r EXCEPT !.width = Max2(r.width, Px(MinCrop)),
            !.height = Max2(r.height, Px(MinCrop))]

NonNegative(r) == [r EXCEPT !.x = Max2(r.x, 0), !.y = Max2(r.y, 0)]

FitCanvas(r, size) ==
  [r EXCEPT !.width = IF r.x + r.width > size.width
                      THEN size.width - r.x ELSE r.width,
            !.height = IF r.y + r.height > size.height
                       THEN size.height - r.y ELSE r.height]

CropMoved(start, h, d, size) ==
  FitCanvas(NonNegative(MinSized(DraggedRect(start, h, d))), size)

\* The processing overlay covers the interior of the canvas wrapper; the
\* corner handles stick out of it.
handleCropPointerDown(h) ==
  /\ MainUi
  /\ activeTool = "crop"
  /\ cropRect # NoRect
  /\ h = "move" => ~isAiProcessingBrush
  /\ cropDragRef' = [startRect |-> cropRect, handle |-> h]
  /\ UNCHANGED <<modeVars, stackVars, selectedLayerId, histVars, canvasSize,
                 drawVars, maskVars, aiVars, cropRect, dragVars, uuidCount>>

\* ---- crop aspect presets
\* A preset rect that is not centred (a variant of AspectRect).
AspectRectTopLeft(r, size) ==
  [x |-> 0, y |-> 0, width |-> size.width, height |-> size.height]

\* h = W / (r.w / r.h) > H iff W * r.h > H * r.w
TooTall(r, size) == size.width * r.h > size.height * r.w

AspectWidth(r, size) ==
  IF TooTall(r, size) THEN (size.height * r.w) \div r.h ELSE size.width

AspectHeight(r, size) ==
  IF TooTall(r, size) THEN size.height ELSE (size.width * r.h) \div r.w

AspectRect(r, size) ==
  IF r.w = 0
  THEN [x |-> 0, y |-> 0, width |-> size.width, height |-> size.height]
  ELSE [x |-> (size.width - AspectWidth(r, size)) \div 2,
        y |-> (size.height - AspectHeight(r, size)) \div 2,
        width |-> AspectWidth(r, size),
        height |-> AspectHeight(r, size)]

\* The preset's rect is a whole number of the model's length units.
Representable(r, size) ==
  IF r.w = 0 THEN TRUE
  ELSE /\ (size.height * r.w) % r.h = 0
       /\ (size.width * r.h) % r.w = 0
       /\ (size.width - AspectWidth(r, size)) % 2 = 0
       /\ (size.height - AspectHeight(r, size)) % 2 = 0

\* A button of the aspect presets in the crop panel.
CropPreset(r) ==
  /\ MainUi
  /\ activeTool = "crop"
  /\ Representable(r, canvasSize)
  /\ cropRect' = AspectRect(r, canvasSize)
  /\ UNCHANGED <<modeVars, stackVars, selectedLayerId, histVars, canvasSize,
                 drawVars, maskVars, aiVars, cropDragRef, dragVars, uuidCount>>

Moved(l, dx, dy) == [l EXCEPT !.x = l.x + dx, !.y = l.y + dy]

DragMoved(ls, id, dx, dy) ==
  [j \in 1..Len(ls) |-> IF ls[j].id = id THEN Moved(ls[j], dx, dy) ELSE ls[j]]

WithinCoord(ls) ==
  \A j \in 1..Len(ls) :
    /\ ls[j].x \in (0 - Px(MaxCoord))..Px(MaxCoord)
    /\ ls[j].y \in (0 - Px(MaxCoord))..Px(MaxCoord)

\* One onMouseMove / onTouchMove of the canvas container: p is the pointer in
\* canvas coordinates, d its displacement since the crop drag started.
handleDragMove(p, d) ==
  /\ MainUi
  /\ IF activeTool = "crop"
     THEN /\ IF cropDragRef # NoCropDrag /\ cropRect # NoRect
             THEN cropRect' = CropMoved(cropDragRef.startRect,
                                        cropDragRef.handle, d, canvasSize)
             ELSE UNCHANGED cropRect
          /\ UNCHANGED <<stackVars, drawVars, maskVars, dragVars>>
     ELSE IF activeTool = "ai_brush" /\ isDrawing
     THEN /\ Len(aiActivePath) <= MaxPath
          /\ aiActivePath' = Append(aiActivePath, p)
          /\ UNCHANGED <<stackVars, drawVars, aiMaskOperations, dragVars,
                         cropRect>>
     ELSE IF activeTool = "draw" /\ isDrawing
     THEN /\ Len(currentPath) <= MaxPath
          /\ currentPath' = Append(currentPath, p)
          /\ UNCHANGED <<stackVars, isDrawing, maskVars, dragVars, cropRect>>
     ELSE IF selectedLayerId # NULL /\ dragStartRef # NoPoint
     THEN /\ isDraggingRef' = TRUE
          /\ layers' = DragMoved(layers, selectedLayerId,
                                 p.x - dragStartRef.x, p.y - dragStartRef.y)
          /\ WithinCoord(layers')
          /\ layersRef' = NewRef
          /\ dragStartRef' = p
          /\ UNCHANGED <<drawVars, maskVars, cropRect>>
     ELSE UNCHANGED <<stackVars, drawVars, maskVars, dragVars, cropRect>>
  /\ UNCHANGED <<modeVars, selectedLayerId, histVars, canvasSize, aiVars,
                 cropDragRef, uuidCount>>

MaskOperation(path, size) == [type |-> "add", points |-> path, size |-> size]

\* onMouseUp / onMouseLeave / onTouchEnd of the canvas container.
handleDragEnd ==
  /\ MainUi
  /\ IF activeTool = "crop"
     THEN /\ cropDragRef' = NoCropDrag
          /\ UNCHANGED <<stackVars, histVars, drawVars, maskVars, dragVars,
                         uuidCount>>
     ELSE IF activeTool = "ai_brush" /\ Len(aiActivePath) > 0
     THEN /\ Len(aiMaskOperations) < MaxMaskOps
          /\ isDrawing' = FALSE
          /\ aiMaskOperations' = Append(aiMaskOperations,
                                        MaskOperation(aiActivePath, 30))
          /\ aiActivePath' = <<>>
          /\ UNCHANGED <<stackVars, histVars, currentPath, dragVars,
                         cropDragRef, uuidCount>>
     ELSE IF Len(currentPath) > 0 /\ activeTool = "draw"
     THEN /\ uuidCount < MaxOverlays
          /\ RoomFor(history, historyIndex)
          /\ isDrawing' = FALSE
          /\ layers' = Append(layers, drawingLayer(uuid, currentPath))
          /\ layersRef' = NewRef
          /\ saveHistory(layers', layersRef', canvasSize)
          /\ currentPath' = <<>>
          /\ uuidCount' = uuidCount + 1
          /\ dragStartRef' = NoPoint
          /\ UNCHANGED <<maskVars, isDraggingRef, cropDragRef>>
     ELSE IF isDraggingRef
     THEN /\ RoomFor(history, historyIndex)
          /\ isDrawing' = FALSE
          /\ saveHistory(layers, layersRef, canvasSize)
          /\ isDraggingRef' = FALSE
          /\ dragStartRef' = NoPoint
          /\ UNCHANGED <<stackVars, currentPath, maskVars, cropDragRef,
                         uuidCount>>
     ELSE /\ isDrawing' = FALSE
          /\ dragStartRef' = NoPoint
          /\ UNCHANGED <<stackVars, histVars, currentPath, maskVars,
                         isDraggingRef, cropDragRef, uuidCount>>
  /\ UNCHANGED <<modeVars, selectedLayerId, canvasSize, aiVars, cropRect>>

\* ---------------------------------------------------------------- crop
\* The crop size without rounding (a variant of CropSize).
CropSizeExact(r) == [width |-> r.width, height |-> r.height]

CropSize(r) == [width |-> Round(r.width), height |-> Round(r.height)]

\* A crop that carried the points of a drawing along with its position.
RebasedWithPoints(ls, r) ==
  [j \in 1..Len(ls) |->
     [ls[j] EXCEPT !.x = ls[j].x - r.x, !.y = ls[j].y - r.y,
                   !.content.points =
                     [k \in 1..Len(ls[j].content.points) |->
                        [x |-> ls[j].content.points[k].x - r.x,
                         y |-> ls[j].content.points[k].y - r.y]]]]

Rebased(ls, r) ==
  [j \in 1..Len(ls) |-> [ls[j] EXCEPT !.x = ls[j].x - r.x, !.y = ls[j].y - r.y]]

applyCrop ==
  /\ MainUi
  /\ activeTool = "crop"
  /\ IF cropRect = NoRect
     THEN UNCHANGED <<activeTool, stackVars, histVars, canvasSize, cropRect>>
     ELSE /\ RoomFor(history, historyIndex)
          /\ canvasSize' = CropSize(cropRect)
          /\ layers' = Rebased(layers, cropRect)
          /\ layersRef' = NewRef
          /\ saveHistory(layers', layersRef', CropSize(cropRect))
          /\ activeTool' = NULL
          /\ CropEffect(NULL, canvasSize')
  /\ UNCHANGED <<editorMode, selectedLayerId, drawVars, maskVars, aiVars,
                 cropDragRef, dragVars, uuidCount>>


\* ------------------------------------------------- sliders and presets
ScaleValues == {5}          \* the scale slider's value, in tenths
FilterPresets == {[DEFAULT_ADJUSTMENTS EXCEPT !.saturation = 0]}

SelectedIs(type) ==
  \E i \in 1..Len(layers) : layers[i].id = selectedLayerId /\ layers[i].type = type

ScaleSliderShown ==
  \/ /\ activeTool = "adjust"
     /\ editorMode = "manual"
     /\ selectedLayerId # NULL
     /\ selectedLayerId # BACKGROUND
  \/ activeTool = "sticker" /\ SelectedIs("sticker")
  \/ /\ activeTool = "ai_object"
     /\ HasLayer(layers, selectedLayerId)
     /\ selectedLayerId # BACKGROUND

WithScale(ls, id, v) ==
  [j \in 1..Len(ls) |-> IF ls[j].id = id THEN [ls[j] EXCEPT !.scale = v] ELSE ls[j]]

\* The updates replacing the filter record instead of merging into it.
ReplaceFilter(old, upd) ==
  [k \in DOMAIN old |-> IF k \in DOMAIN upd THEN upd[k] ELSE NoFilter[k]]

\* { ...l.style?.filter, ...updates }
MergeFilter(old, upd) ==
  [k \in DOMAIN old |-> IF k \in DOMAIN upd THEN upd[k] ELSE old[k]]

WithFilter(ls, id, upd) ==
  [j \in 1..Len(ls) |->
     IF ls[j].id = id
     THEN [ls[j] EXCEPT !.filter = MergeFilter(ls[j].filter, upd)]
     ELSE ls[j]]

\* onChange of a scale slider: updateSelectedLayer({scale}) without a save.
ScaleSliderChange(v) ==
  /\ MainUi
  /\ ScaleSliderShown
  /\ layers' = WithScale(layers, selectedLayerId, v)
  /\ layersRef' = NewRef
  /\ UNCHANGED <<modeVars, selectedLayerId, histVars, canvasSize, drawVars,
                 maskVars, aiVars, cropVars, dragVars, uuidCount>>

\* onMouseUp / onTouchEnd of a slider: saveHistory(layers).
SliderRelease ==
  /\ MainUi
  /\ ScaleSliderShown
  /\ RoomFor(history, historyIndex)
  /\ saveHistory(layers, layersRef, canvasSize)
  /\ UNCHANGED <<modeVars, stackVars, selectedLayerId, canvasSize, drawVars,
                 maskVars, aiVars, cropVars, dragVars, uuidCount>>

FilterTarget == IF selectedLayerId # NULL THEN selectedLayerId ELSE BACKGROUND

\* A preset of the filter panel: update...Layer(f.filter, true).
FilterPreset(f) ==
  /\ MainUi
  /\ activeTool = "filter"
  /\ RoomFor(history, historyIndex)
  /\ layers' = WithFilter(layers, FilterTarget, f)
  /\ layersRef' = NewRef
  /\ saveHistory(layers', layersRef', canvasSize)
  /\ UNCHANGED <<modeVars, selectedLayerId, canvasSize, drawVars, maskVars,
                 aiVars, cropVars, dragVars, uuidCount>>

\* The sliders of the manual adjust panel: onChange updates one field of the
\* selected layer's filter, or of the background's when nothing is selected.
AdjustPanelShown ==
  /\ activeTool = "adjust"
  /\ editorMode = "manual"
  /\ selectedLayerId # NULL \/ HasLayer(layers, BACKGROUND)

AdjustInputs == {[key |-> "brightness", val |-> 50], [key |-> "blur", val |-> 5]}

AdjustSliderChange(key, val) ==
  /\ MainUi
  /\ AdjustPanelShown
  /\ layers' = WithFilter(layers, FilterTarget, key :> val)
  /\ layersRef' = NewRef
  /\ UNCHANGED <<modeVars, selectedLayerId, histVars, canvasSize, drawVars,
                 maskVars, aiVars, cropVars, dragVars, uuidCount>>

\* onMouseUp / onTouchEnd of an adjust slider: saveHistory(layers).
AdjustSliderRelease ==
  /\ MainUi
  /\ AdjustPanelShown
  /\ RoomFor(history, historyIndex)
  /\ saveHistory(layers, layersRef, canvasSize)
  /\ UNCHANGED <<modeVars, stackVars, selectedLayerId, canvasSize, drawVars,
                 maskVars, aiVars, cropVars, dragVars, uuidCount>>

EnhanceUpdates == [brightness |-> 110, contrast |-> 115, saturation |-> 110]

handleAiEnhance ==
  /\ MainUi
  /\ activeTool = "ai_enhance"
  /\ RoomFor(history, historyIndex)
  /\ layers' = WithFilter(layers, FilterTarget, EnhanceUpdates)
  /\ layersRef' = NewRef
  /\ saveHistory(layers', layersRef', canvasSize)
  /\ alertMsg' = "aiSuccessEnhance"
  /\ UNCHANGED <<modeVars, selectedLayerId, canvasSize, drawVars, maskVars,
                 aiVars, cropVars, dragVars, uuidCount>>

\* ------------------------------------------------------------ AI brush
\* The Clear and Apply buttons are disabled otherwise.
MaskButtonsEnabled == ~isAiProcessingBrush /\ Len(aiMaskOperations) > 0

ClearMask ==
  /\ MainUi
  /\ activeTool = "ai_brush"
  /\ MaskButtonsEnabled
  /\ aiMaskOperations' = <<>>
  /\ aiActivePath' = <<>>
  /\ UNCHANGED <<modeVars, stackVars, selectedLayerId, histVars, canvasSize,
                 drawVars, aiVars, cropVars, dragVars, uuidCount>>

ApplyTarget ==
  IF selectedLayerId # NULL THEN selectedLayerId
  ELSE IF HasLayer(layers, BACKGROUND) THEN BACKGROUND ELSE NULL

IsImage(ls, id) == \E i \in 1..Len(ls) : ls[i].id = id /\ ls[i].type = "image"

\* handleAiBrushApply up to its first await: the rest of the handler runs with
\* the layers, history, historyIndex and canvasSize of this render.
handleAiBrushApply ==
  /\ MainUi
  /\ activeTool = "ai_brush"
  /\ MaskButtonsEnabled
  /\ IF ApplyTarget = NULL
     THEN alertMsg' = NULL /\ UNCHANGED aiVars
     ELSE IF ~IsImage(layers, ApplyTarget)
     THEN alertMsg' = "Target layer must be an image." /\ UNCHANGED aiVars
     ELSE /\ isAiProcessingBrush' = TRUE
          /\ aiApply' = [pc |-> "pending", layers |-> layers,
                         layersRef |-> layersRef, history |-> history,
                         historyIndex |-> historyIndex,
                         canvasSize |-> canvasSize, target |-> ApplyTarget]
          /\ alertMsg' = NULL
  /\ UNCHANGED <<modeVars, stackVars, selectedLayerId, histVars, canvasSize,
                 drawVars, maskVars, cropVars, dragVars, uuidCount>>

Enhanced(ls, id) ==
  [j \in 1..Len(ls) |->
     IF ls[j].id = id
     THEN [ls[j] EXCEPT !.content = [src |-> "enhanced", points |-> <<>>]]
     ELSE ls[j]]

\* The continuation after the awaits, on success.
AiBrushApplyDone ==
  /\ aiApply.pc = "pending"
  /\ RoomFor(aiApply.history, aiApply.historyIndex)
  /\ layers' = Enhanced(aiApply.layers, aiApply.target)
  /\ layersRef' = NewRef
  /\ history' = SavedHistory(aiApply.history, aiApply.historyIndex, layers',
                             layersRef', aiApply.canvasSize)
  /\ historyIndex' = SavedIndex(aiApply.history, aiApply.historyIndex, layers',
                                layersRef', aiApply.canvasSize)
  /\ aiMaskOperations' = <<>>
  /\ aiActivePath' = <<>>
  /\ alertMsg' = "aiImproveSuccess"
  /\ isAiProcessingBrush' = FALSE
  /\ aiApply' = NoApply
  /\ UNCHANGED <<modeVars, selectedLayerId, canvasSize, drawVars, cropVars,
                 dragVars, uuidCount>>

\* A step inside the try block throws (no 2d context, tainted canvas):
\* catch, then finally.
AiBrushApplyThrow ==
  /\ aiApply.pc = "pending"
  /\ alertMsg' = "aiImproveFail"
  /\ isAiProcessingBrush' = FALSE
  /\ aiApply' = NoApply
  /\ UNCHANGED <<modeVars, stackVars, selectedLayerId, histVars, canvasSize,
                 drawVars, maskVars, cropVars, dragVars, uuidCount>>

\* The target's image fails to load: the awaited promise resolves from onload
\* only, so the handler never resumes.
AiBrushApplyLoadError ==
  /\ aiApply.pc = "pending"
  /\ aiApply' = [aiApply EXCEPT !.pc = "stuck"]
  /\ alertMsg' = NULL
  /\ UNCHANGED <<modeVars, stackVars, selectedLayerId, histVars, canvasSize,
                 drawVars, maskVars, isAiProcessingBrush, cropVars,
                 dragVars, uuidCount>>


\* ------------------------------------------------------------ observers
\* The operations that take a snapshot of an edit the user made.
EditOps == {"addStickerLayer", "handleImportLayer", "deleteSelectedLayer",
            "layersPanelDelete", "toggleVisible", "handleDragEnd",
            "sliderRelease", "filterPreset", "applyCrop"}

\* rt follows a run "import, n snapshot-producing edits, n undos, n redos":
\* n edits seen so far, k undos (phase undo) or redos (phase redo) done, and
\* the live state the last edit left.  Anything else ends the run.
RunAfter(kind) ==
  IF kind = "handleImageUpload"
  THEN [phase |-> "edits", n |-> 0, k |-> 0, layers |-> layers',
        canvasSize |-> canvasSize']
  ELSE IF kind = "handleUndo"
  THEN IF rt.phase = "edits" /\ rt.n > 0
       THEN [rt EXCEPT !.phase = "undo", !.k = 1]
       ELSE IF rt.phase = "undo" /\ rt.k < rt.n
       THEN [rt EXCEPT !.k = rt.k + 1]
       ELSE NoRun
  ELSE IF kind = "handleRedo"
  THEN IF rt.phase = "undo" /\ rt.k = rt.n
       THEN [rt EXCEPT !.phase = "redo", !.k = 1]
       ELSE IF rt.phase = "redo" /\ rt.k < rt.n
       THEN [rt EXCEPT !.k = rt.k + 1]
       ELSE NoRun
  ELSE IF rt.phase # "edits"
  THEN NoRun
  ELSE IF history' = history
  THEN rt
  ELSE IF kind \in EditOps
  THEN [rt EXCEPT !.n = rt.n + 1, !.layers = layers',
                  !.canvasSize = canvasSize']
  ELSE NoRun

\* gestureSize is the canvas size under which the gesture in progress (a
\* layer drag or a stroke) captured its first coordinates.
GestureSizeAfter(kind) ==
  IF kind = "handlePointerDown"
  THEN IF isDrawing' \/ dragStartRef' # NoPoint THEN canvasSize ELSE NoSize
  ELSE IF kind \in {"handleDragEnd", "closeEditor"}
  THEN NoSize
  ELSE gestureSize

\* lastDelete is the target of the delete path the last step called, if any.
LastDeleteAfter(kind, arg) ==
  IF kind \in {"deleteSelectedLayer", "layersPanelDelete"} THEN arg ELSE NULL

\* stroke follows a gesture of the draw tool, "pointer-down at p0, moves to
\* p1..pk, pointer-up": the points of the events so far, and the layers and
\* the history up to the index at pointer-down.  Anything else ends it, and
\* so does a move beyond the model's cap on the length of a path.
StrokeAfter(kind, p) ==
  IF kind = "handlePointerDown" /\ activeTool = "draw"
  THEN [phase |-> "down", points |-> <<p>>, layers |-> layers,
        history |-> Slice(history, historyIndex)]
  ELSE IF /\ kind = "handleDragMove"
          /\ stroke.phase \in {"down", "move"}
          /\ Len(stroke.points) <= MaxPath
  THEN [stroke EXCEPT !.phase = "move", !.points = Append(stroke.points, p)]
  ELSE IF kind = "handleDragEnd" /\ stroke.phase \in {"down", "move"}
  THEN [stroke EXCEPT !.phase = "up"]
  ELSE NoStroke

\* cropBase follows a crop session "pick the crop tool, drags and presets,
\* pick another tool": the layers, canvas size and history at activation, and
\* whether the rect was changed.  Anything else ends it.
CropBaseAfter(kind) ==
  IF kind = "setActiveTool" /\ activeTool # "crop" /\ activeTool' = "crop"
  THEN [phase |-> "open", changed |-> FALSE, layers |-> layers,
        canvasSize |-> canvasSize, history |-> history,
        historyIndex |-> historyIndex]
  ELSE IF /\ cropBase.phase = "open"
          /\ kind \in {"handleCropPointerDown", "handleDragMove",
                        "handleDragEnd", "cropPreset"}
  THEN [cropBase EXCEPT !.changed = @ \/ cropRect' # cropRect]
  ELSE IF cropBase.phase = "open" /\ kind = "setActiveTool"
  THEN [cropBase EXCEPT !.phase = "left"]
  ELSE NoBase

\* lastSave records the last step if it called saveHistory: whether the
\* argument was the array of the current entry with an equal canvas size, and
\* the history and index of the render that made the call.
LastSaveAfter(kind) ==
  IF kind \in {"sliderRelease", "addStickerLayer"}
  THEN [kind |-> IF /\ historyIndex >= 0
                    /\ historyIndex < Len(history)
                    /\ history[historyIndex + 1].ref = layersRef'
                    /\ history[historyIndex + 1].canvasSize = canvasSize'
                 THEN "same" ELSE "other",
        history |-> history, historyIndex |-> historyIndex]
  ELSE NoSave

\* drag follows one gesture on a layer: from the press that hit a layer, over
\* the moves that took the layer-drag branch, to the release; the history
\* and index are those of the render that handled the release.
DragAfter(kind, p) ==
  IF /\ kind = "handlePointerDown"
     /\ ~isAiProcessingBrush
     /\ activeTool \notin {"crop", "ai_brush", "draw"}
     /\ TopHit(layers, p) # 0
  THEN [phase |-> "down", moved |-> FALSE, history |-> <<>>, historyIndex |-> -1]
  ELSE IF drag.phase = "down" /\ kind = "handleDragMove"
  THEN [drag EXCEPT !.moved = @ \/ layersRef' # layersRef]
  ELSE IF drag.phase = "down" /\ kind = "handleDragEnd"
  THEN [drag EXCEPT !.phase = "up", !.history = history,
                    !.historyIndex = historyIndex]
  ELSE IF drag.phase = "down" /\ kind # "handlePointerDown"
  THEN drag
  ELSE NoDrag

observers == <<rt, gestureSize, lastDelete, stroke, cropBase, lastSave, drag>>

\* A handler that raises no alert.
Silent == alertMsg' = NULL

\* The observers are followed in the specification whose properties read them.
TrackDelete(kind, arg) ==
  /\ lastDelete' = LastDeleteAfter(kind, arg)
  /\ UNCHANGED <<rt, gestureSize, stroke, cropBase, lastSave, drag, sbVars, genVars>>

\* SpecRun leaves a run only at its end: a step that would break the run off
\* is not taken.
TrackRun(kind) ==
  /\ rt' = RunAfter(kind)
  /\ rt.phase = "void" \/ rt'.phase # "void"
  /\ UNCHANGED <<gestureSize, lastDelete, stroke, cropBase, lastSave, drag, sbVars, genVars>>

TrackGesture(kind) ==
  /\ gestureSize' = GestureSizeAfter(kind)
  /\ UNCHANGED <<rt, lastDelete, stroke, cropBase, lastSave, drag, sbVars, genVars>>

TrackStroke(kind, p) ==
  /\ stroke' = StrokeAfter(kind, p)
  /\ UNCHANGED <<rt, gestureSize, lastDelete, cropBase, lastSave, drag, sbVars, genVars>>

TrackCrop(kind) ==
  /\ cropBase' = CropBaseAfter(kind)
  /\ UNCHANGED <<rt, gestureSize, lastDelete, stroke, lastSave, drag, sbVars, genVars>>

TrackSave(kind) ==
  /\ lastSave' = LastSaveAfter(kind)
  /\ UNCHANGED <<rt, gestureSize, lastDelete, stroke, cropBase, drag, sbVars, genVars>>

TrackDrag(kind, p) ==
  /\ drag' = DragAfter(kind, p)
  /\ UNCHANGED <<rt, gestureSize, lastDelete, stroke, cropBase, lastSave,
                 sbVars, genVars>>

Untracked == UNCHANGED <<observers, sbVars, genVars>>

\* =============================================================== Sketchbook
\* Canvas coordinates of the Sketchbook are whole pixels; zoom is in
\* hundredths.
MaxShapes == 1        \* cap on the shapes and strokes drawn on the layer
MaxSbHistory == 2     \* cap on the number of Sketchbook history entries
MaxShapeCoord == 200  \* cap on the coordinates of a moved shape

SbHistoryCap == 20
HandleReach == 20     \* the handle threshold is 20 / zoom

Pt(x, y) == [x |-> x, y |-> y]
SbPoints == {Pt(0, 0), Pt(100, 50), Pt(200, 150)}
ShapeTools == {"rect", "circle", "line"}
SbTools == {"pencil", "rect"}
SQUARE == [width |-> 1200, height |-> 1200]
Ratios == {SQUARE}
\* (clientWidth - 40) / width of a phone and of a desktop container.
FitZooms == {28, 100}

NoShape == [type |-> "none", start |-> Pt(-1, -1), end |-> Pt(-1, -1)]
NoPos == Pt(-1, -1)

\* ---- drafts
AutosaveDelay == 2         \* the debounce of the autosave, in seconds
MaxSbLayers == 2           \* cap on the number of Sketchbook layers
INITIAL_LAYERS == <<"layer-1">>
LayerIds == <<"layer-1", "layer-2", "layer-3">>     \* `layer-${Date.now()}`

\* Every canvas blank; the canvases of layers that do not exist count as
\* blank.
AllLayerIds == {LayerIds[i] : i \in 1..Len(LayerIds)}
BlankCanvases == [id \in AllLayerIds |-> <<>>]
Ids(ls) == {ls[i] : i \in 1..Len(ls)}

\* null of a draft
NoDraft == [id |-> "null", layers |-> <<>>, canvasSize |-> NoSize,
            pixels |-> BlankCanvases, backgroundColor |-> "null"]

\* An asynchronous handler at its await holds the history and index of the
\* render that started it; a pending restore holds the draft.
NoCall == [state |-> "idle", history |-> <<>>, historyIndex |-> -1,
           layers |-> <<>>, draft |-> NoDraft]
Awaiting(state) == [state |-> state, history |-> sbHistory,
                    historyIndex |-> sbHistoryIndex, layers |-> sbLayers,
                    draft |-> NoDraft]

\* checkDraft is under way from the mount on.
InitPc == [check |-> "get", newProject |-> NoCall, resume |-> NoCall,
           write |-> NoDraft]

NoLog == [last |-> "none", got |-> NoDraft, saved |-> NoDraft]

\* An object store with keyPath 'id': put, get(key) || null, delete(key).
StorePut(store, rec) == {r \in store : r.id # rec.id} \cup {rec}
StoreGet(store, key) ==
  IF \E r \in store : r.id = key
  THEN CHOOSE r \in store : r.id = key
  ELSE NoDraft
StoreDelete(store, key) == {r \in store : r.id # key}

\* A draft stored under the id it carries.
AsGiven(draft) == draft

\* { ...draft, id: 'latest' }
Latest(draft) == [draft EXCEPT !.id = "latest"]

\* The store each service call leaves, and the result of the get.
saveSketchbookDraft(store, draft) == StorePut(store, Latest(draft))
getSketchbookDraft(store) == StoreGet(store, "latest")
deleteSketchbookDraft(store) == StoreDelete(store, "latest")

\* A pending timer of the autosave: its handle, the state its callback
\* closes over and the seconds left until it fires.
Timer(id, ls, size, bg) ==
  [id |-> id, layers |-> ls, canvasSize |-> size, backgroundColor |-> bg,
   remaining |-> AutosaveDelay]

\* setTimeout returns a handle no pending timer has.
FreshId(timers) ==
  CHOOSE n \in 1..(Cardinality(timers) + 1) :
    /\ \A t \in timers : t.id # n
    /\ \A m \in 1..(n - 1) : \E t \in timers : t.id = m

\* An effect that leaves the pending timer alone.
KeepTimeout(timers, id) == timers

clearTimeout(timers, id) == {t \in timers : t.id # id}

InitSB ==
  /\ sbActiveTool = "pencil"
  /\ sbZoom = 100
  /\ sbCanvasSize = SQUARE
  /\ sbActiveShape = NoShape
  /\ sbDragMode = NULL
  /\ sbDragOffset = Pt(0, 0)
  /\ sbIsDrawing = FALSE
  /\ sbStartPos = NoPos
  /\ sbLastPos = NoPos
  /\ sbPixels = <<>>
  /\ sbHistory = <<>>
  /\ sbHistoryIndex = -1
  /\ sbLayers = INITIAL_LAYERS
  /\ sbBackgroundColor = "white"
  /\ sbShowResumeDialog = FALSE
  /\ sbMounted = TRUE
  /\ sbActiveLayerId = "layer-1"
  /\ sbOthers = BlankCanvases
  /\ sbTaken = <<>>
  /\ sbTimers = {Timer(1, INITIAL_LAYERS, SQUARE, "white")}
  /\ saveTimeoutRef = 1
  /\ sbPc = InitPc
  /\ sbUncaught = {}
  /\ draftStore = {}
  /\ sbScript = 0
  /\ sbSinceChange = 0
  /\ draftLog = NoLog

\* saveState without the eviction.
SbSavedAll(h, hi, pixels) == Append(Slice(h, hi), pixels)

\* saveState(ctx): the snapshot is the layer's pixels, here the list of
\* what was drawn on it.
SbSaved(h, hi, pixels) ==
  IF Len(Slice(h, hi)) + 1 > SbHistoryCap
  THEN Tail(Append(Slice(h, hi), pixels))
  ELSE Append(Slice(h, hi), pixels)

\* The cap some specifications put on the Sketchbook history: a step is
\* taken only if the history it leaves is within MaxSbHistory.
SbFew == Len(sbHistory') <= MaxSbHistory

sbSaveState(pixels) ==
  /\ sbHistory' = SbSaved(sbHistory, sbHistoryIndex, pixels)
  /\ sbHistoryIndex' = Len(sbHistory') - 1

\* The autosave effect on [layers, historyIndex, canvasSize,
\* backgroundColor], run after the render a handler causes: sizeSet tells
\* whether the handler set canvasSize (always to a new object).  The cleanup
\* of the previous run and the first line of this one clear the last timer;
\* a new one is armed unless the resume dialog shows or there is no layer.
\* sbSinceChange counts the seconds since the effect last ran.
AutosaveEffect(sizeSet) ==
  IF \/ sizeSet
     \/ sbLayers' # sbLayers
     \/ sbHistoryIndex' # sbHistoryIndex
     \/ sbBackgroundColor' # sbBackgroundColor
  THEN /\ sbSinceChange' = 0
       /\ IF sbShowResumeDialog' \/ Len(sbLayers') = 0
          THEN /\ sbTimers' = clearTimeout(sbTimers, saveTimeoutRef)
               /\ UNCHANGED saveTimeoutRef
          ELSE /\ saveTimeoutRef' = FreshId(clearTimeout(sbTimers, saveTimeoutRef))
               /\ sbTimers' = clearTimeout(sbTimers, saveTimeoutRef)
                                \cup {Timer(saveTimeoutRef', sbLayers',
                                            sbCanvasSize', sbBackgroundColor')}
  ELSE UNCHANGED <<sbTimers, saveTimeoutRef, sbSinceChange>>

\* The controls of the Sketchbook are under the overlay of the resume dialog
\* while it shows; handlePointerDown also returns at once.
SbUi == sbMounted /\ ~sbShowResumeDialog

\* What a handler of the drawing surface leaves alone.
sbDraftState == <<sbLayers, sbBackgroundColor, sbShowResumeDialog, sbMounted,
                  sbPc, sbUncaught, draftStore>>
SbIdleDrafts == UNCHANGED <<sbDraftState, sbActiveLayerId, sbOthers>>

\* The canvas of a layer, and the canvases of all layers.
CanvasOf(id) == IF id = sbActiveLayerId THEN sbPixels ELSE sbOthers[id]
Canvases == [id \in AllLayerIds |-> CanvasOf(id)]

\* isPointNear(p1, p2, 20 / zoom): dist <= 20 / zoom, squared; the squared
\* distance is a whole number, so the bound may be rounded down.
isPointNear(p1, p2, zoom) ==
  (p1.x - p2.x) * (p1.x - p2.x) + (p1.y - p2.y) * (p1.y - p2.y)
    <= ((HandleReach * 100) * (HandleReach * 100)) \div (zoom * zoom)

\* The drag mode the handle hit test of a rect or circle selects, first
\* match in the order TL, TR, BR, BL; NULL if no handle is near.
HandleAt(shape, pos, zoom) ==
  IF isPointNear(pos, shape.start, zoom) THEN "resize_tl"
  ELSE IF isPointNear(pos, Pt(shape.end.x, shape.start.y), zoom) THEN "resize_tr"
  ELSE IF isPointNear(pos, shape.end, zoom) THEN "resize_br"
  ELSE IF isPointNear(pos, Pt(shape.start.x, shape.end.y), zoom) THEN "resize_bl"
  ELSE NULL

LineHandleAt(shape, pos, zoom) ==
  IF isPointNear(pos, shape.start, zoom) THEN "resize_start"
  ELSE IF isPointNear(pos, shape.end, zoom) THEN "resize_end"
  ELSE NULL

InBoundingBox(shape, pos) ==
  /\ pos.x >= Min2(shape.start.x, shape.end.x)
  /\ pos.x <= Max2(shape.start.x, shape.end.x)
  /\ pos.y >= Min2(shape.start.y, shape.end.y)
  /\ pos.y <= Max2(shape.start.y, shape.end.y)

\* A new shape that starts at the origin instead of the click.
NewShapeAtOrigin(tool, pos) == [type |-> tool, start |-> Pt(0, 0), end |-> pos]

NewShape(tool, pos) == [type |-> tool, start |-> pos, end |-> pos]

\* commitShape(): stroke the shape on the active layer, save, drop the shape.
commitShape ==
  /\ sbPixels' = Append(sbPixels, sbActiveShape)
  /\ sbSaveState(sbPixels')
  /\ sbActiveShape' = NoShape

\* A toolbar or shape-menu button, with the effect on [activeTool].
sbSetActiveTool(tool) ==
  /\ SbUi
  /\ sbActiveTool' = tool
  /\ IF tool # sbActiveTool /\ sbActiveShape # NoShape /\ tool \notin ShapeTools
     THEN Len(sbPixels) < MaxShapes /\ commitShape
     ELSE UNCHANGED <<sbActiveShape, sbPixels, sbHistory, sbHistoryIndex>>
  /\ UNCHANGED <<sbZoom, sbCanvasSize, sbDragMode, sbDragOffset, sbIsDrawing,
                 sbStartPos, sbLastPos>>
  /\ SbIdleDrafts
  /\ AutosaveEffect(FALSE)

sbHandlePointerDown(pos) ==
  /\ SbUi
  /\ IF sbActiveTool \in ShapeTools
     THEN IF sbActiveShape # NoShape
               /\ (IF sbActiveShape.type = "line"
                   THEN LineHandleAt(sbActiveShape, pos, sbZoom)
                   ELSE HandleAt(sbActiveShape, pos, sbZoom)) # NULL
          THEN /\ sbDragMode' = (IF sbActiveShape.type = "line"
                                 THEN LineHandleAt(sbActiveShape, pos, sbZoom)
                                 ELSE HandleAt(sbActiveShape, pos, sbZoom))
               /\ UNCHANGED <<sbActiveTool, sbZoom, sbCanvasSize, sbActiveShape,
                              sbDragOffset, sbIsDrawing, sbStartPos, sbLastPos,
                              sbPixels, sbHistory, sbHistoryIndex>>
          ELSE IF sbActiveShape # NoShape /\ InBoundingBox(sbActiveShape, pos)
          THEN /\ sbDragMode' = "move"
               /\ sbDragOffset' = Pt(pos.x - sbActiveShape.start.x,
                                     pos.y - sbActiveShape.start.y)
               /\ UNCHANGED <<sbActiveTool, sbZoom, sbCanvasSize, sbActiveShape,
                              sbIsDrawing, sbStartPos, sbLastPos, sbPixels,
                              sbHistory, sbHistoryIndex>>
          ELSE /\ IF sbActiveShape # NoShape
                  THEN /\ Len(sbPixels) < MaxShapes
                       /\ sbPixels' = Append(sbPixels, sbActiveShape)
                       /\ sbSaveState(sbPixels')
                  ELSE UNCHANGED <<sbPixels, sbHistory, sbHistoryIndex>>
               /\ sbDragMode' = "create"
               /\ sbActiveShape' = NewShape(sbActiveTool, pos)
               /\ UNCHANGED <<sbActiveTool, sbZoom, sbCanvasSize, sbDragOffset,
                              sbIsDrawing, sbStartPos, sbLastPos>>
     ELSE /\ sbIsDrawing' = TRUE
          /\ sbLastPos' = pos
          /\ sbStartPos' = pos
          /\ UNCHANGED <<sbActiveTool, sbZoom, sbCanvasSize, sbActiveShape,
                         sbDragMode, sbDragOffset, sbPixels, sbHistory,
                         sbHistoryIndex>>
  /\ SbIdleDrafts
  /\ AutosaveEffect(FALSE)

\* The shape handlePointerMove sets for the drag mode.
Dragged(shape, mode, pos, offset) ==
  IF mode = "create" THEN [shape EXCEPT !.end = pos]
  ELSE IF mode = "move"
  THEN [shape EXCEPT
          !.start = Pt(pos.x - offset.x, pos.y - offset.y),
          !.end = Pt(pos.x - offset.x + (shape.end.x - shape.start.x),
                     pos.y - offset.y + (shape.end.y - shape.start.y))]
  ELSE IF mode \in {"resize_start", "resize_tl"} THEN [shape EXCEPT !.start = pos]
  ELSE IF mode \in {"resize_end", "resize_br"} THEN [shape EXCEPT !.end = pos]
  ELSE IF mode = "resize_tr"
  THEN [shape EXCEPT !.start = Pt(shape.start.x, pos.y),
                     !.end = Pt(pos.x, shape.end.y)]
  ELSE [shape EXCEPT !.start = Pt(pos.x, shape.start.y),
                     !.end = Pt(shape.end.x, pos.y)]

WithinShapeCoord(shape) ==
  \A c \in {shape.start.x, shape.start.y, shape.end.x, shape.end.y} :
    c \in (0 - MaxShapeCoord)..MaxShapeCoord

sbHandlePointerMove(pos) ==
  /\ SbUi
  /\ IF sbActiveTool \in ShapeTools /\ sbActiveShape # NoShape /\ sbDragMode # NULL
     THEN /\ sbActiveShape' = Dragged(sbActiveShape, sbDragMode, pos, sbDragOffset)
          /\ WithinShapeCoord(sbActiveShape')
          /\ UNCHANGED <<sbActiveTool, sbZoom, sbCanvasSize, sbDragMode,
                         sbDragOffset, sbIsDrawing, sbStartPos, sbLastPos,
                         sbPixels, sbHistory, sbHistoryIndex>>
     ELSE IF sbIsDrawing /\ sbLastPos # NoPos
     THEN /\ sbLastPos' = pos
          /\ UNCHANGED <<sbActiveTool, sbZoom, sbCanvasSize, sbActiveShape,
                         sbDragMode, sbDragOffset, sbIsDrawing, sbStartPos,
                         sbPixels, sbHistory, sbHistoryIndex>>
     ELSE UNCHANGED <<sbActiveTool, sbZoom, sbCanvasSize, sbActiveShape,
                      sbDragMode, sbDragOffset, sbIsDrawing, sbStartPos,
                      sbLastPos, sbPixels, sbHistory, sbHistoryIndex>>
  /\ SbIdleDrafts
  /\ AutosaveEffect(FALSE)

Stroke(from, to) == [type |-> "stroke", start |-> from, end |-> to]

\* A pointer-up that commits the active shape.
sbPointerUpCommits ==
  /\ SbUi
  /\ sbActiveTool \in ShapeTools
  /\ sbActiveShape # NoShape
  /\ Len(sbPixels) < MaxShapes
  /\ sbDragMode' = NULL
  /\ commitShape
  /\ UNCHANGED <<sbActiveTool, sbZoom, sbCanvasSize, sbDragOffset, sbIsDrawing,
                 sbStartPos, sbLastPos>>
  /\ SbIdleDrafts
  /\ AutosaveEffect(FALSE)

sbHandlePointerUp ==
  /\ SbUi
  /\ IF sbActiveTool \in ShapeTools
     THEN /\ sbDragMode' = NULL
          /\ UNCHANGED <<sbActiveTool, sbZoom, sbCanvasSize, sbActiveShape,
                         sbDragOffset, sbIsDrawing, sbStartPos, sbLastPos,
                         sbPixels, sbHistory, sbHistoryIndex>>
     ELSE IF ~sbIsDrawing
     THEN UNCHANGED <<sbActiveTool, sbZoom, sbCanvasSize, sbActiveShape,
                      sbDragMode, sbDragOffset, sbIsDrawing, sbStartPos,
                      sbLastPos, sbPixels, sbHistory, sbHistoryIndex>>
     ELSE /\ Len(sbPixels) < MaxShapes
          /\ sbPixels' = Append(sbPixels, Stroke(sbStartPos, sbLastPos))
          /\ sbSaveState(sbPixels')
          /\ sbIsDrawing' = FALSE
          /\ sbStartPos' = NoPos
          /\ UNCHANGED <<sbActiveTool, sbZoom, sbCanvasSize, sbActiveShape,
                         sbDragMode, sbDragOffset, sbLastPos>>
  /\ SbIdleDrafts
  /\ AutosaveEffect(FALSE)

\* updateCanvasSize(ratio) with its setTimeout callback: the canvases are
\* resized (which clears them) and saveState runs with the history and index
\* of the render that called updateCanvasSize.
updateCanvasSize(h, hi, ls, ratio, fitZoom) ==
  /\ sbCanvasSize' = ratio
  /\ sbZoom' = Min2(fitZoom, 100)
  /\ sbPixels' = (IF sbActiveLayerId \in Ids(ls) THEN <<>> ELSE sbPixels)
  /\ sbOthers' = [id \in AllLayerIds |->
                    IF id \in Ids(ls) THEN <<>> ELSE sbOthers[id]]
  /\ UNCHANGED sbActiveLayerId
  /\ sbHistory' = SbSaved(h, hi, <<>>)
  /\ sbHistoryIndex' = Len(sbHistory') - 1
  /\ UNCHANGED <<sbActiveTool, sbActiveShape, sbDragMode, sbDragOffset,
                 sbIsDrawing, sbStartPos, sbLastPos>>

\* An entry of the ratio menu.
sbUpdateCanvasSize(ratio, fitZoom) ==
  /\ SbUi
  /\ updateCanvasSize(sbHistory, sbHistoryIndex, sbLayers, ratio, fitZoom)
  /\ UNCHANGED sbDraftState
  /\ AutosaveEffect(TRUE)

sbRestore(i) ==
  /\ SbUi
  /\ sbPixels' = sbHistory[i + 1]
  /\ sbHistoryIndex' = i
  /\ sbActiveShape' = NoShape
  /\ UNCHANGED <<sbActiveTool, sbZoom, sbCanvasSize, sbDragMode, sbDragOffset,
                 sbIsDrawing, sbStartPos, sbLastPos, sbHistory>>
  /\ SbIdleDrafts
  /\ AutosaveEffect(FALSE)

undo == sbHistoryIndex > 0 /\ sbRestore(sbHistoryIndex - 1)
redo == sbHistoryIndex < Len(sbHistory) - 1 /\ sbRestore(sbHistoryIndex + 1)

\* ---- layers, background, drafts
sbSurface == <<sbActiveTool, sbZoom, sbCanvasSize, sbActiveShape, sbDragMode,
               sbDragOffset, sbIsDrawing, sbStartPos, sbLastPos, sbPixels,
               sbHistory, sbHistoryIndex, sbActiveLayerId, sbOthers>>

addLayer ==
  /\ SbUi
  /\ Len(sbLayers) < MaxSbLayers
  /\ sbLayers' = Append(sbLayers, LayerIds[Len(sbLayers) + 1])
  /\ sbActiveLayerId' = LayerIds[Len(sbLayers) + 1]
  /\ sbOthers' = [sbOthers EXCEPT ![sbActiveLayerId] = sbPixels,
                                  ![sbActiveLayerId'] = <<>>]
  /\ sbPixels' = <<>>
  /\ UNCHANGED <<sbActiveTool, sbZoom, sbCanvasSize, sbActiveShape, sbDragMode,
                 sbDragOffset, sbIsDrawing, sbStartPos, sbLastPos, sbHistory,
                 sbHistoryIndex, sbBackgroundColor, sbShowResumeDialog,
                 sbMounted, sbPc, sbUncaught, draftStore>>
  /\ AutosaveEffect(FALSE)

\* The layer select of the layers panel.
setActiveLayerId(id) ==
  /\ SbUi
  /\ id \in Ids(sbLayers)
  /\ id # sbActiveLayerId
  /\ sbActiveLayerId' = id
  /\ sbOthers' = [sbOthers EXCEPT ![sbActiveLayerId] = sbPixels, ![id] = <<>>]
  /\ sbPixels' = sbOthers[id]
  /\ UNCHANGED <<sbActiveTool, sbZoom, sbCanvasSize, sbActiveShape, sbDragMode,
                 sbDragOffset, sbIsDrawing, sbStartPos, sbLastPos, sbHistory,
                 sbHistoryIndex, sbDraftState>>
  /\ AutosaveEffect(FALSE)

\* The 'Toggle BG' button.
NextBackground(bg) ==
  IF bg = "white" THEN "black" ELSE IF bg = "black" THEN "transparent" ELSE "white"

toggleBackground ==
  /\ SbUi
  /\ sbBackgroundColor' = NextBackground(sbBackgroundColor)
  /\ UNCHANGED <<sbSurface, sbLayers, sbShowResumeDialog, sbMounted, sbPc,
                 sbUncaught, draftStore>>
  /\ AutosaveEffect(FALSE)

\* checkDraft from its await on: the read gave a draft or null (ok) or was
\* rejected; updateCanvasSize is the one of the first render.
checkDraft(ok, fitZoom) ==
  /\ sbMounted
  /\ sbPc.check = "get"
  /\ sbPc' = [sbPc EXCEPT !.check = "done"]
  /\ IF ok /\ getSketchbookDraft(draftStore) # NoDraft
     THEN sbShowResumeDialog' = TRUE /\ UNCHANGED sbSurface
     ELSE /\ updateCanvasSize(<<>>, -1, INITIAL_LAYERS, SQUARE, fitZoom)
          /\ UNCHANGED sbShowResumeDialog
  /\ UNCHANGED <<sbLayers, sbBackgroundColor, sbMounted, sbUncaught, draftStore>>
  /\ AutosaveEffect(~(ok /\ getSketchbookDraft(draftStore) # NoDraft))

\* 'New Drawing', up to its await.
handleNewProject ==
  /\ sbMounted
  /\ sbShowResumeDialog
  /\ sbShowResumeDialog' = FALSE
  /\ sbPc' = [sbPc EXCEPT !.newProject = Awaiting("delete")]
  /\ UNCHANGED <<sbSurface, sbLayers, sbBackgroundColor, sbMounted, sbUncaught,
                 draftStore>>
  /\ AutosaveEffect(FALSE)

\* 'New Drawing' after its await: a rejected delete rejects the handler's
\* promise, which no one handles.  Once the Sketchbook is gone the delete
\* still completes and the state updates are dropped.
handleNewProjectAfter(ok, fitZoom) ==
  /\ sbPc.newProject.state \in {"delete", "deleteGone"}
  /\ sbPc' = [sbPc EXCEPT !.newProject = NoCall]
  /\ draftStore' = (IF ok THEN deleteSketchbookDraft(draftStore) ELSE draftStore)
  /\ sbUncaught' = (IF ok THEN sbUncaught ELSE sbUncaught \cup {"handleNewProject"})
  /\ IF ok /\ sbPc.newProject.state = "delete"
     THEN updateCanvasSize(sbPc.newProject.history,
                           sbPc.newProject.historyIndex,
                           sbPc.newProject.layers, SQUARE, fitZoom)
     ELSE UNCHANGED sbSurface
  /\ UNCHANGED <<sbLayers, sbBackgroundColor, sbShowResumeDialog, sbMounted>>
  /\ AutosaveEffect(ok /\ sbPc.newProject.state = "delete")

\* 'Resume', up to its await.
handleResumeProject ==
  /\ sbMounted
  /\ sbShowResumeDialog
  /\ sbShowResumeDialog' = FALSE
  /\ sbPc' = [sbPc EXCEPT !.resume = Awaiting("get")]
  /\ UNCHANGED <<sbSurface, sbLayers, sbBackgroundColor, sbMounted, sbUncaught,
                 draftStore>>
  /\ AutosaveEffect(FALSE)

\* 'Resume' after its await, up to the setTimeout that restores the pixels.
handleResumeProjectAfter(ok, fitZoom) ==
  /\ sbMounted
  /\ sbPc.resume.state = "get"
  /\ IF ok /\ getSketchbookDraft(draftStore) # NoDraft
     THEN /\ sbCanvasSize' = getSketchbookDraft(draftStore).canvasSize
          /\ sbLayers' = getSketchbookDraft(draftStore).layers
          /\ sbBackgroundColor' = getSketchbookDraft(draftStore).backgroundColor
          /\ sbPc' = [sbPc EXCEPT !.resume =
                        [NoCall EXCEPT !.state = "restore",
                                       !.draft = getSketchbookDraft(draftStore)]]
          /\ UNCHANGED <<sbActiveTool, sbZoom, sbActiveShape, sbDragMode,
                         sbDragOffset, sbIsDrawing, sbStartPos, sbLastPos,
                         sbPixels, sbHistory, sbHistoryIndex, sbActiveLayerId,
                         sbOthers>>
     ELSE /\ updateCanvasSize(sbPc.resume.history, sbPc.resume.historyIndex,
                              sbPc.resume.layers, SQUARE, fitZoom)
          /\ sbPc' = [sbPc EXCEPT !.resume = NoCall]
          /\ UNCHANGED <<sbLayers, sbBackgroundColor>>
  /\ UNCHANGED <<sbShowResumeDialog, sbMounted, sbUncaught, draftStore>>
  /\ AutosaveEffect(TRUE)

\* The setTimeout callback of 'Resume': the canvases of the draft's layers
\* are resized and the draft's images drawn on them, the last layer becomes
\* the active one; the zoom is fitted.
restoreDraft(fitZoom) ==
  /\ sbMounted
  /\ sbPc.resume.state = "restore"
  /\ sbActiveLayerId' =
       (IF Len(sbPc.resume.draft.layers) > 0
        THEN sbPc.resume.draft.layers[Len(sbPc.resume.draft.layers)]
        ELSE sbActiveLayerId)
  /\ sbPixels' =
       (IF sbActiveLayerId' \in Ids(sbPc.resume.draft.layers)
        THEN sbPc.resume.draft.pixels[sbActiveLayerId']
        ELSE sbPixels)
  /\ sbOthers' = [id \in AllLayerIds |->
                    IF id = sbActiveLayerId' THEN <<>>
                    ELSE IF id \in Ids(sbPc.resume.draft.layers)
                    THEN sbPc.resume.draft.pixels[id]
                    ELSE <<>>]
  /\ sbZoom' = Min2(fitZoom, 100)
  /\ sbPc' = [sbPc EXCEPT !.resume = NoCall]
  /\ UNCHANGED <<sbActiveTool, sbCanvasSize, sbActiveShape, sbDragMode,
                 sbDragOffset, sbIsDrawing, sbStartPos, sbLastPos, sbHistory,
                 sbHistoryIndex, sbLayers, sbBackgroundColor,
                 sbShowResumeDialog, sbMounted, sbUncaught, draftStore>>
  /\ AutosaveEffect(FALSE)

\* One second passes; a timer that is due fires before more time passes.
Tick ==
  /\ \A t \in sbTimers : t.remaining > 0
  /\ sbTimers' = {[t EXCEPT !.remaining = @ - 1] : t \in sbTimers}
  /\ sbSinceChange' = Min2(sbSinceChange + 1, AutosaveDelay)
  /\ UNCHANGED <<sbSurface, sbLayers, sbBackgroundColor, sbShowResumeDialog,
                 sbMounted, saveTimeoutRef, sbPc, sbUncaught, draftStore>>

\* The draft the timer's callback builds: the state of its closure and the
\* pixels the canvases hold when it runs.
DraftOf(t) ==
  [id |-> "latest", layers |-> t.layers, canvasSize |-> t.canvasSize,
   pixels |-> [id \in AllLayerIds |->
                 IF id \in Ids(t.layers) THEN CanvasOf(id) ELSE <<>>],
   backgroundColor |-> t.backgroundColor]

\* The callback of the autosave timer, up to its await.  Every canvas has a
\* size, so toDataURL never gives 'data:,' and hasContent is true.  The
\* model has one write under way at a time.
autosaveTimeout(t) ==
  /\ t \in sbTimers
  /\ t.remaining = 0
  /\ sbPc.write = NoDraft
  /\ sbTimers' = sbTimers \ {t}
  /\ sbPc' = [sbPc EXCEPT !.write = DraftOf(t)]
  /\ UNCHANGED <<sbSurface, sbLayers, sbBackgroundColor, sbShowResumeDialog,
                 sbMounted, saveTimeoutRef, sbUncaught, draftStore,
                 sbSinceChange>>

\* The callback after its await: a rejected put rejects the callback's
\* promise, which no one handles.
autosaveTimeoutAfter(ok) ==
  /\ sbPc.write # NoDraft
  /\ sbPc' = [sbPc EXCEPT !.write = NoDraft]
  /\ draftStore' = (IF ok THEN saveSketchbookDraft(draftStore, sbPc.write)
                    ELSE draftStore)
  /\ sbUncaught' = (IF ok THEN sbUncaught ELSE sbUncaught \cup {"autosave"})
  /\ UNCHANGED <<sbSurface, sbLayers, sbBackgroundColor, sbShowResumeDialog,
                 sbMounted, sbTimers, saveTimeoutRef, sbSinceChange>>

\* onBack: the Sketchbook unmounts and the cleanup of the autosave effect
\* runs.  Reads under way are dropped, a delete under way still completes.
Gone(pc) ==
  [check |-> "done",
   newProject |-> IF pc.newProject.state = "idle" THEN NoCall
                  ELSE [NoCall EXCEPT !.state = "deleteGone"],
   resume |-> NoCall,
   write |-> pc.write]

unmount ==
  /\ sbMounted
  /\ sbMounted' = FALSE
  /\ sbTimers' = clearTimeout(sbTimers, saveTimeoutRef)
  /\ sbPc' = Gone(sbPc)
  /\ UNCHANGED <<sbSurface, sbLayers, sbBackgroundColor, sbShowResumeDialog,
                 saveTimeoutRef, sbUncaught, draftStore, sbSinceChange>>

\* The Sketchbook is opened again: a new component with the initial state of
\* useState and useRef, over the same store.
mount ==
  /\ ~sbMounted
  /\ sbMounted' = TRUE
  /\ sbActiveTool' = "pencil"
  /\ sbZoom' = 100
  /\ sbCanvasSize' = SQUARE
  /\ sbActiveShape' = NoShape
  /\ sbDragMode' = NULL
  /\ sbDragOffset' = Pt(0, 0)
  /\ sbIsDrawing' = FALSE
  /\ sbStartPos' = NoPos
  /\ sbLastPos' = NoPos
  /\ sbPixels' = <<>>
  /\ sbHistory' = <<>>
  /\ sbHistoryIndex' = -1
  /\ sbLayers' = INITIAL_LAYERS
  /\ sbActiveLayerId' = "layer-1"
  /\ sbOthers' = BlankCanvases
  /\ sbBackgroundColor' = "white"
  /\ sbShowResumeDialog' = FALSE
  /\ sbTimers' = sbTimers \cup {Timer(FreshId(sbTimers), INITIAL_LAYERS, SQUARE, "white")}
  /\ saveTimeoutRef' = FreshId(sbTimers)
  /\ sbPc' = [sbPc EXCEPT !.check = "get"]
  /\ sbSinceChange' = 0
  /\ UNCHANGED <<sbUncaught, draftStore>>

\* sbScript follows the run "with the rect tool and no active shape, press
\* at (0,0), move to (100,50), release, press at (100,50), move to (200,150),
\* release, pick the pencil": the number of its steps done, 0 when the last
\* steps are not a prefix of it.
ScriptAfter(kind, arg) ==
  IF /\ kind = "down"
     /\ arg = Pt(0, 0)
     /\ sbActiveTool = "rect"
     /\ sbActiveShape = NoShape
  THEN 1
  ELSE IF sbScript = 1 /\ kind = "move" /\ arg = Pt(100, 50) THEN 2
  ELSE IF sbScript = 2 /\ kind = "up" THEN 3
  ELSE IF sbScript = 3 /\ kind = "down" /\ arg = Pt(100, 50) THEN 4
  ELSE IF sbScript = 4 /\ kind = "move" /\ arg = Pt(200, 150) THEN 5
  ELSE IF sbScript = 5 /\ kind = "up" THEN 6
  ELSE IF sbScript = 6 /\ kind = "tool" /\ arg = "pencil" THEN 7
  ELSE 0

TrackSB(kind, arg) ==
  sbScript' = ScriptAfter(kind, arg) /\ UNCHANGED <<draftLog, sbTaken, peVars, genVars>>

\* ============================================================ generateImage
\* The plans and the aspect ratios (as width : height) of a GenerationConfig.
BaseSize(plan) == IF plan = "plus" THEN 1024 ELSE 768
GenRatios == {[w |-> 1, h |-> 1], [w |-> 3, h |-> 4], [w |-> 16, h |-> 9]}
GenStyles == {"none", "anime", "cartoon", "realistic"}
GenConfigs ==
  {[style |-> style, plan |-> plan, aspectRatio |-> r] :
     style \in GenStyles, plan \in {"basic", "plus"}, r \in GenRatios}

\* The model each provider is asked for; the tertiary provider has one.
KieModel(style) ==
  IF style = "anime" THEN "flux"
  ELSE IF style \in {"cartoon", "caricature"} THEN "magic" ELSE "turbo"

PollinationsModel(style) ==
  IF style = "none" THEN "turbo"
  ELSE IF style = "anime" THEN "flux-anime"
  ELSE IF style = "realistic" THEN "flux-realism" ELSE "flux"

ModelOf(p, style) ==
  IF p = "primary" THEN KieModel(style)
  ELSE IF p = "secondary" THEN PollinationsModel(style)
  ELSE "stable-diffusion-xl-base-1.0"

\* snap(Math.sqrt(area * w / h)): the multiple of 64 nearest to the root,
\* n with (n - 1/2) * 64 <= root < (n + 1/2) * 64.
SnapRoot(area, w, h) ==
  64 * (CHOOSE n \in 1..64 :
          /\ (2 * n - 1) * (2 * n - 1) * 1024 * h <= area * w
          /\ area * w < (2 * n + 1) * (2 * n + 1) * 1024 * h)

getDimensions(plan, ratio) ==
  [width |-> SnapRoot(BaseSize(plan) * BaseSize(plan), ratio.w, ratio.h),
   height |-> SnapRoot(BaseSize(plan) * BaseSize(plan), ratio.h, ratio.w)]

Providers == <<"primary", "secondary", "tertiary">>

\* A provider that takes the place of every other one.
AlwaysTertiary(p) == "tertiary"

\* The provider tried after p has failed.
NextProvider(p) == IF p = "primary" THEN "secondary" ELSE "tertiary"

AllFailed == "All image generation providers failed. Please try again later."

\* The JSON bodies the primary provider answers with.
NoData == [url |-> NULL, image |-> NULL, outputUrl |-> NULL]
KieData ==
  {[NoData EXCEPT !.url = "https://kie/1.png"],
   [NoData EXCEPT !.image = "data:image/png;base64,AAAA"],
   [NoData EXCEPT !.image = "AAAA"],
   [NoData EXCEPT !.outputUrl = "https://kie/out.png"],
   NoData}

IsDataUrl(str) == Len(str) >= 5 /\ SubSeq(str, 1, 5) = "data:"

\* What generateKieAI returns for a body; NULL stands for its throw of
\* 'Invalid response format'.
KieUrl(data) ==
  IF data.url # NULL THEN data.url
  ELSE IF data.image # NULL
  THEN IF data.image = "data:image/png;base64,AAAA" THEN data.image
       ELSE "data:image/png;base64,AAAA"
  ELSE IF data.outputUrl # NULL THEN data.outputUrl
  ELSE NULL

Attempt(p, cfg) ==
  [provider |-> p, outcome |-> "pending", model |-> ModelOf(p, cfg.style),
   width |-> getDimensions(cfg.plan, cfg.aspectRatio).width,
   height |-> getDimensions(cfg.plan, cfg.aspectRatio).height]

InitGen ==
  /\ genPc = "idle"
  /\ genConfig = [style |-> "none", plan |-> "basic",
                  aspectRatio |-> [w |-> 1, h |-> 1]]
  /\ genTimer = FALSE
  /\ genAborted = FALSE
  /\ genLog = <<>>
  /\ genResult = NULL

Outcome(log, outcome) == [log EXCEPT ![Len(log)].outcome = outcome]

\* generateImage up to its first await: the timeout is armed and the primary
\* provider is called.
generateImage(config) ==
  /\ genPc \in {"idle", "returned", "failed"}
  /\ genConfig' = config
  /\ genTimer' = TRUE
  /\ genAborted' = FALSE
  /\ genLog' = <<Attempt("primary", config)>>
  /\ genPc' = "primary"
  /\ genResult' = NULL

\* The provider under way has returned url: return, through finally.
GenReturns(url) ==
  /\ genPc' = "returned"
  /\ genResult' = url
  /\ genLog' = Outcome(genLog, "ok")
  /\ genTimer' = FALSE
  /\ UNCHANGED <<genConfig, genAborted>>

\* The provider under way has thrown: the catch of its try, then the next
\* provider, or the aggregate error through finally.
GenCatches ==
  /\ IF genPc = "tertiary"
     THEN /\ genPc' = "failed"
          /\ genResult' = AllFailed
          /\ genLog' = Outcome(genLog, "failed")
          /\ genTimer' = FALSE
     ELSE /\ genPc' = NextProvider(genPc)
          /\ genLog' = Append(Outcome(genLog, "failed"),
                              Attempt(NextProvider(genPc), genConfig))
          /\ UNCHANGED <<genResult, genTimer>>
  /\ UNCHANGED <<genConfig, genAborted>>

\* The primary provider answers: a status that is not ok or a body without
\* an image makes it throw.
KieResponds(ok, data) ==
  /\ genPc = "primary"
  /\ ~genAborted
  /\ IF ok /\ KieUrl(data) # NULL THEN GenReturns(KieUrl(data)) ELSE GenCatches

\* The secondary or the tertiary provider answers with a blob or with a
\* status that is not ok.
BlobResponds(ok) ==
  /\ genPc \in {"secondary", "tertiary"}
  /\ ~genAborted
  /\ IF ok THEN GenReturns("blob:" \o genPc) ELSE GenCatches

\* fetch rejects: the network failed, or the signal is aborted.
FetchRejects ==
  /\ genPc \in {"primary", "secondary", "tertiary"}
  /\ GenCatches

\* The callback of the global timeout.
GlobalTimeout ==
  /\ genTimer
  /\ genTimer' = FALSE
  /\ genAborted' = TRUE
  /\ UNCHANGED <<genPc, genConfig, genLog, genResult>>

\* ------------------------------------------------------ specifications
Stickers == {"star"}

\* The model's cap on uuid() calls outside SpecSelect.
FewIds == uuidCount < MaxIds

Init == InitPE /\ InitSB /\ InitGen

\* Spec: manual editing of the layer stack with its history.
EditTools == {"adjust", "filter", "crop", "sticker", "layers"}

\* The model drags a crop handle from the full-canvas rectangle only.
FullCrop == cropRect = CropRectFor("crop", canvasSize)

Next ==
  \/ SetEditorMode("manual") /\ Silent /\ TrackDelete("setEditorMode", NULL)
  \/ \E size \in UploadSizes :
       handleImageUpload(size) /\ Silent /\ TrackDelete("handleImageUpload", NULL)
  \/ \E tool \in EditTools :
       ToolbarClick(tool) /\ Silent /\ TrackDelete("setActiveTool", NULL)
  \/ \E sticker \in Stickers :
       FewIds /\ addStickerLayer(sticker) /\ Silent /\ TrackDelete("addStickerLayer", NULL)
  \/ \E img \in ImportSizes :
       FewIds /\ handleImportLayer(img) /\ Silent /\ TrackDelete("handleImportLayer", NULL)
  \/ deleteSelectedLayer /\ Silent
       /\ TrackDelete("deleteSelectedLayer", selectedLayerId)
  \/ \E i \in 1..(MaxIds + 1) :
       LayersPanelDelete(i) /\ Silent
         /\ TrackDelete("layersPanelDelete", layers[i].id)
  \/ \E i \in 1..(MaxIds + 1) :
       LayersPanelSelect(i) /\ Silent /\ TrackDelete("setSelectedLayerId", NULL)
  \/ \E i \in 1..(MaxIds + 1) :
       LayersPanelToggle(i) /\ Silent /\ TrackDelete("toggleVisible", NULL)
  \/ handleUndo /\ Silent /\ TrackDelete("handleUndo", NULL)
  \/ handleRedo /\ Silent /\ TrackDelete("handleRedo", NULL)
  \/ \E h \in CropHandles :
       FullCrop /\ handleCropPointerDown(h) /\ Silent
         /\ TrackDelete("handleCropPointerDown", NULL)
  \/ \E p \in DragTo, d \in CropDeltas :
       activeTool = "crop" /\ handleDragMove(p, d) /\ Silent
         /\ TrackDelete("handleDragMove", NULL)
  \/ handleDragEnd /\ Silent /\ TrackDelete("handleDragEnd", NULL)
  \/ applyCrop /\ Silent /\ TrackDelete("applyCrop", NULL)
  \/ \E v \in ScaleValues :
       ScaleSliderChange(v) /\ Silent /\ TrackDelete("updateSelectedLayer", NULL)
  \/ SliderRelease /\ Silent /\ TrackDelete("sliderRelease", NULL)
  \/ \E f \in FilterPresets :
       FilterPreset(f) /\ Silent /\ TrackDelete("filterPreset", NULL)

Spec == Init /\ [][Next]_vars


\* SpecRun: the runs "upload, edits, undos, redos" of the manual editor.
NextRun ==
  \/ SetEditorMode("manual") /\ Silent /\ TrackRun("setEditorMode")
  \/ \E size \in UploadSizes :
       handleImageUpload(size) /\ Silent /\ TrackRun("handleImageUpload")
  \/ \E tool \in EditTools :
       ToolbarClick(tool) /\ Silent /\ TrackRun("setActiveTool")
  \/ \E sticker \in Stickers :
       FewIds /\ addStickerLayer(sticker) /\ Silent /\ TrackRun("addStickerLayer")
  \/ \E img \in ImportSizes :
       FewIds /\ handleImportLayer(img) /\ Silent /\ TrackRun("handleImportLayer")
  \/ deleteSelectedLayer /\ Silent
       /\ TrackRun("deleteSelectedLayer")
  \/ \E i \in 1..(MaxIds + 1) :
       LayersPanelDelete(i) /\ Silent
         /\ TrackRun("layersPanelDelete")
  \/ \E i \in 1..(MaxIds + 1) :
       LayersPanelSelect(i) /\ Silent /\ TrackRun("setSelectedLayerId")
  \/ \E i \in 1..(MaxIds + 1) :
       LayersPanelToggle(i) /\ Silent /\ TrackRun("toggleVisible")
  \/ \E p \in DragDown :
       handlePointerDown(p) /\ Silent /\ TrackRun("handlePointerDown")
  \/ handleUndo /\ Silent /\ TrackRun("handleUndo")
  \/ handleRedo /\ Silent /\ TrackRun("handleRedo")
  \/ \E h \in CropHandles :
       FullCrop /\ handleCropPointerDown(h) /\ Silent
         /\ TrackRun("handleCropPointerDown")
  \/ \E p \in DragTo, d \in CropDeltas :
       handleDragMove(p, d) /\ Silent
         /\ TrackRun("handleDragMove")
  \/ handleDragEnd /\ Silent /\ TrackRun("handleDragEnd")
  \/ applyCrop /\ Silent /\ TrackRun("applyCrop")
  \/ \E v \in ScaleValues :
       ScaleSliderChange(v) /\ Silent /\ TrackRun("updateSelectedLayer")
  \/ SliderRelease /\ Silent /\ TrackRun("sliderRelease")
  \/ \E f \in FilterPresets :
       FilterPreset(f) /\ Silent /\ TrackRun("filterPreset")

SpecRun == Init /\ [][NextRun]_vars

\* SpecDrag: pointer gestures on the canvas while the canvas size changes.
DragTools == {"sticker", "crop"}

NextDrag ==
  \/ SetEditorMode("manual") /\ Silent /\ TrackGesture("setEditorMode")
  \/ \E size \in UploadSizes :
       handleImageUpload(size) /\ Silent /\ TrackGesture("handleImageUpload")
  \/ \E tool \in DragTools :
       ToolbarClick(tool) /\ Silent /\ TrackGesture("setActiveTool")
  \/ \E sticker \in Stickers :
       FewIds /\ addStickerLayer(sticker) /\ Silent /\ TrackGesture("addStickerLayer")
  \/ handleUndo /\ Silent /\ TrackGesture("handleUndo")
  \/ handleRedo /\ Silent /\ TrackGesture("handleRedo")
  \/ \E p \in DragDown :
       handlePointerDown(p) /\ Silent /\ TrackGesture("handlePointerDown")
  \/ \E h \in CropHandles :
       FullCrop /\ handleCropPointerDown(h) /\ Silent
         /\ TrackGesture("handleCropPointerDown")
  \/ \E p \in DragTo, d \in CropDeltas :
       handleDragMove(p, d) /\ Silent /\ TrackGesture("handleDragMove")
  \/ handleDragEnd /\ Silent /\ TrackGesture("handleDragEnd")
  \/ applyCrop /\ Silent /\ TrackGesture("applyCrop")

SpecDrag == Init /\ [][NextDrag]_vars

\* SpecMask: the AI brush and its asynchronous apply.
NextMask ==
  \/ SetEditorMode("ai") /\ Silent /\ Untracked
  \/ \E size \in UploadSizes :
       handleImageUpload(size) /\ Silent /\ Untracked
  \/ ToolbarClick("ai_brush") /\ Silent /\ Untracked
  \/ handleUndo /\ Silent /\ Untracked
  \/ handleRedo /\ Silent /\ Untracked
  \/ \E p \in StrokeDown : handlePointerDown(p) /\ Silent /\ Untracked
  \/ \E p \in StrokeTo, d \in CropDeltas :
       handleDragMove(p, d) /\ Silent /\ Untracked
  \/ handleDragEnd /\ Silent /\ Untracked
  \/ ClearMask /\ Silent /\ Untracked
  \/ handleAiBrushApply /\ Untracked
  \/ AiBrushApplyDone /\ Untracked
  \/ AiBrushApplyThrow /\ Untracked
  \/ AiBrushApplyLoadError /\ Untracked

SpecMask == Init /\ [][NextMask]_vars

\* SpecDraw: the draw tool, also after the editor was left and re-entered
\* while an apply of the AI brush is in flight.
Modes == {"manual", "ai"}
DrawTools == {"ai_brush", "draw"}

NextDraw ==
  \/ \E m \in Modes : SetEditorMode(m) /\ Silent /\ TrackStroke("other", NoPoint)
  \/ BackToModes /\ Silent /\ TrackStroke("other", NoPoint)
  \/ CloseEditor /\ Silent /\ TrackStroke("other", NoPoint)
  \/ \E size \in UploadSizes :
       handleImageUpload(size) /\ Silent /\ TrackStroke("other", NoPoint)
  \/ \E tool \in DrawTools : ToolbarClick(tool) /\ Silent /\ TrackStroke("other", NoPoint)
  \/ \E p \in StrokeDown : handlePointerDown(p) /\ Silent
         /\ TrackStroke("handlePointerDown", p)
  \/ \E p \in StrokeTo, d \in CropDeltas :
       handleDragMove(p, d) /\ Silent /\ TrackStroke("handleDragMove", p)
  \/ /\ (activeTool = "draw" /\ Len(currentPath) > 0) => FewIds
     /\ handleDragEnd
     /\ Silent
     /\ TrackStroke("handleDragEnd", NoPoint)
  \/ handleAiBrushApply /\ TrackStroke("other", NoPoint)
  \/ AiBrushApplyThrow /\ TrackStroke("other", NoPoint)
  \/ AiBrushApplyLoadError /\ TrackStroke("other", NoPoint)

SpecDraw == Init /\ [][NextDraw]_vars

\* The model points at the canvas with a shape tool only.
OnShapeTool == sbActiveTool \in ShapeTools

NextSB ==
  \/ \E ratio \in Ratios, fit \in FitZooms :
       sbUpdateCanvasSize(ratio, fit) /\ SbFew /\ TrackSB("size", NULL)
  \/ \E tool \in SbTools : sbSetActiveTool(tool) /\ SbFew /\ TrackSB("tool", tool)
  \/ \E pos \in SbPoints :
       OnShapeTool /\ sbHandlePointerDown(pos) /\ SbFew /\ TrackSB("down", pos)
  \/ \E pos \in SbPoints :
       OnShapeTool /\ sbHandlePointerMove(pos) /\ TrackSB("move", pos)
  \/ OnShapeTool /\ sbHandlePointerUp /\ TrackSB("up", NULL)
  \/ undo /\ TrackSB("undo", NULL)
  \/ redo /\ TrackSB("redo", NULL)

SpecSB == Init /\ [][NextSB]_vars

\* SpecCrop: the crop tool with every handle, pointer displacements up to
\* the padding around the canvas, and the aspect presets.
MaxCropCoord == 200   \* cap on the x, y, width and height of a dragged crop rect, in pixels
CropSizes == {[width |-> Px(120), height |-> Px(100)],
              [width |-> Px(1600), height |-> Px(900)]}
CropSpecHandles == {"tl", "tr", "bl", "br", "move"}
CropSpecDeltas == {[dx |-> 0 - Px(30), dy |-> 0 - Px(30)],
                   [dx |-> Px(100), dy |-> 0],
                   [dx |-> Px(130), dy |-> Px(110)]}
CropSpecTools == {"crop", "adjust", "sticker"}
WithinCropCoord(r) ==
  \A c \in {r.x, r.y, r.width, r.height} : c <= Px(MaxCropCoord)

NextCrop ==
  \/ SetEditorMode("manual") /\ Silent /\ TrackCrop("setEditorMode")
  \/ \E size \in CropSizes :
       handleImageUpload(size) /\ Silent /\ TrackCrop("handleImageUpload")
  \/ \E tool \in CropSpecTools :
       ToolbarClick(tool) /\ Silent /\ TrackCrop("setActiveTool")
  \/ \E r \in AspectRatios : CropPreset(r) /\ Silent /\ TrackCrop("cropPreset")
  \/ \E h \in CropSpecHandles :
       handleCropPointerDown(h) /\ Silent /\ TrackCrop("handleCropPointerDown")
  \/ \E d \in CropSpecDeltas :
       /\ activeTool = "crop"
       /\ handleDragMove(NoPoint, d)
       /\ WithinCropCoord(cropRect')
       /\ Silent
       /\ TrackCrop("handleDragMove")
  \/ handleDragEnd /\ Silent /\ TrackCrop("handleDragEnd")
  \/ \E sticker \in Stickers :
       FewIds /\ addStickerLayer(sticker) /\ Silent /\ TrackCrop("addStickerLayer")
  \/ handleUndo /\ Silent /\ TrackCrop("handleUndo")

SpecCrop == Init /\ [][NextCrop]_vars

\* SpecCropDraw: strokes of the draw tool and crops of the canvas they were
\* drawn on.
CropDrawTools == {"draw", "crop"}
Uncropped == canvasSize \in UploadSizes

NextCropDraw ==
  \/ SetEditorMode("manual") /\ Silent /\ Untracked
  \/ \E size \in UploadSizes : handleImageUpload(size) /\ Silent /\ Untracked
  \/ \E tool \in CropDrawTools : ToolbarClick(tool) /\ Silent /\ Untracked
  \/ \E p \in StrokeDown : handlePointerDown(p) /\ Silent /\ Untracked
  \/ \E p \in StrokeTo, d \in CropDeltas :
       handleDragMove(p, d) /\ Silent /\ Untracked
  \/ /\ (activeTool = "draw" /\ Len(currentPath) > 0) => FewIds
     /\ handleDragEnd
     /\ Silent
     /\ Untracked
  \/ \E h \in CropHandles :
       /\ FullCrop
       /\ Uncropped
       /\ handleCropPointerDown(h)
       /\ Silent
       /\ Untracked
  \/ applyCrop /\ Silent /\ Untracked
  \/ handleUndo /\ Silent /\ Untracked

SpecCropDraw == Init /\ [][NextCropDraw]_vars

\* SpecAsync: an apply of the AI brush in flight while the editor is left,
\* entered again and its canvas cropped.
AsyncTools == {"ai_brush", "crop"}

NextAsync ==
  \/ \E m \in Modes : SetEditorMode(m) /\ Silent /\ Untracked
  \/ aiApply.pc = "pending" /\ CloseEditor /\ Silent /\ Untracked
  \/ \E size \in UploadSizes : handleImageUpload(size) /\ Silent /\ Untracked
  \/ \E tool \in AsyncTools : ToolbarClick(tool) /\ Silent /\ Untracked
  \/ \E p \in StrokeDown :
       /\ activeTool = "ai_brush"
       /\ Len(aiMaskOperations) = 0
       /\ handlePointerDown(p)
       /\ Silent
       /\ Untracked
  \/ \E p \in StrokeTo, d \in CropDeltas :
       handleDragMove(p, d) /\ Silent /\ Untracked
  \/ handleDragEnd /\ Silent /\ Untracked
  \/ \E h \in CropHandles :
       /\ FullCrop
       /\ Uncropped
       /\ handleCropPointerDown(h)
       /\ Silent
       /\ Untracked
  \/ applyCrop /\ Silent /\ Untracked
  \/ handleUndo /\ Silent /\ Untracked
  \/ handleAiBrushApply /\ Untracked
  \/ AiBrushApplyDone /\ Untracked

SpecAsync == Init /\ [][NextAsync]_vars

\* SpecHit: a sticker, its scale slider and presses at the centre of a layer.
HitScales == {1, 5, 20}     \* the slider runs from 0.1 to 5
HitTools == {"sticker", "adjust"}

NextHit ==
  \/ SetEditorMode("manual") /\ Silent /\ TrackSave("setEditorMode")
  \/ \E size \in UploadSizes :
       handleImageUpload(size) /\ Silent /\ TrackSave("handleImageUpload")
  \/ \E tool \in HitTools :
       ToolbarClick(tool) /\ Silent /\ TrackSave("setActiveTool")
  \/ \E sticker \in Stickers :
       FewIds /\ addStickerLayer(sticker) /\ Silent /\ TrackSave("addStickerLayer")
  \/ \E v \in HitScales :
       ScaleSliderChange(v) /\ Silent /\ TrackSave("updateSelectedLayer")
  \/ SliderRelease /\ Silent /\ TrackSave("sliderRelease")
  \/ \E i \in 1..(MaxIds + 1) :
       /\ i <= Len(layers)
       /\ handlePointerDown(CenterOf(layers[i]))
       /\ Silent
       /\ TrackSave("handlePointerDown")
  \/ handleDragEnd /\ Silent /\ TrackSave("handleDragEnd")
  \/ handleUndo /\ Silent /\ TrackSave("handleUndo")
  \/ handleRedo /\ Silent /\ TrackSave("handleRedo")

SpecHit == Init /\ [][NextHit]_vars

\* SpecSelect: presses on a canvas with up to two stickers of different
\* scales, visible or hidden.
SelectPoints == {[x |-> Px(5), y |-> Px(5)], [x |-> Px(36), y |-> Px(26)],
                 [x |-> Px(60), y |-> Px(50)]}
SelectScales == {1}
SelectTools == {"sticker", "layers", "filter"}

NextSelect ==
  \/ SetEditorMode("manual") /\ Silent /\ Untracked
  \/ \E size \in UploadSizes : handleImageUpload(size) /\ Silent /\ Untracked
  \/ \E tool \in SelectTools : ToolbarClick(tool) /\ Silent /\ Untracked
  \/ \E sticker \in Stickers : addStickerLayer(sticker) /\ Silent /\ Untracked
  \/ \E v \in SelectScales : ScaleSliderChange(v) /\ Silent /\ Untracked
  \/ \E i \in 1..(MaxOverlays + 1) : LayersPanelSelect(i) /\ Silent /\ Untracked
  \/ \E i \in 1..(MaxOverlays + 1) : LayersPanelToggle(i) /\ Silent /\ Untracked
  \/ \E p \in SelectPoints : handlePointerDown(p) /\ Silent /\ Untracked
  \/ handleDragEnd /\ Silent /\ Untracked
  \/ handleUndo /\ Silent /\ Untracked

SpecSelect == Init /\ [][NextSelect]_vars

\* SpecAdjust: the adjustment sliders, the filter presets and the AI enhance
\* button, on the background and on a text layer.
AdjustTools == {"adjust", "filter", "text", "ai_enhance"}
AdjustPoints == {[x |-> Px(5), y |-> Px(5)], [x |-> Px(60), y |-> Px(60)]}

NextAdjust ==
  \/ \E m \in {"manual", "ai"} : SetEditorMode(m) /\ Silent /\ Untracked
  \/ \E size \in UploadSizes : handleImageUpload(size) /\ Silent /\ Untracked
  \/ \E tool \in AdjustTools : ToolbarClick(tool) /\ Silent /\ Untracked
  \/ \E text \in NewTexts, w \in TextWidths :
       FewIds /\ addTextLayer(text, w) /\ Silent /\ Untracked
  \/ \E a \in AdjustInputs : AdjustSliderChange(a.key, a.val) /\ Silent /\ Untracked
  \/ AdjustSliderRelease /\ Silent /\ Untracked
  \/ \E f \in FilterPresets : FilterPreset(f) /\ Silent /\ Untracked
  \/ handleAiEnhance /\ Untracked
  \/ \E p \in AdjustPoints : handlePointerDown(p) /\ Silent /\ Untracked
  \/ handleDragEnd /\ Silent /\ Untracked
  \/ handleUndo /\ Silent /\ Untracked

SpecAdjust == Init /\ [][NextAdjust]_vars

\* SpecCommit: layer drags and the scale slider, with the toolbar in reach
\* of a second finger while a drag is under way.
CommitTools == {"sticker", "adjust", "crop"}
CommitPoints == {P10, P50}

NextCommit ==
  \/ SetEditorMode("manual") /\ Silent /\ TrackDrag("setEditorMode", NoPoint)
  \/ \E size \in UploadSizes :
       handleImageUpload(size) /\ Silent /\ TrackDrag("handleImageUpload", NoPoint)
  \/ \E tool \in CommitTools :
       ToolbarClick(tool) /\ Silent /\ TrackDrag("setActiveTool", NoPoint)
  \/ \E sticker \in Stickers :
       FewIds /\ addStickerLayer(sticker) /\ Silent
         /\ TrackDrag("addStickerLayer", NoPoint)
  \/ \E v \in ScaleValues :
       ScaleSliderChange(v) /\ Silent /\ TrackDrag("updateSelectedLayer", NoPoint)
  \/ SliderRelease /\ Silent /\ TrackDrag("sliderRelease", NoPoint)
  \/ \E p \in CommitPoints :
       handlePointerDown(p) /\ Silent /\ TrackDrag("handlePointerDown", p)
  \/ \E p \in CommitPoints, d \in CropDeltas :
       handleDragMove(p, d) /\ Silent /\ TrackDrag("handleDragMove", p)
  \/ handleDragEnd /\ Silent /\ TrackDrag("handleDragEnd", NoPoint)
  \/ handleUndo /\ Silent /\ TrackDrag("handleUndo", NoPoint)

SpecCommit == Init /\ [][NextCommit]_vars

\* SpecUndo: the undo buffer of the Sketchbook up to its capacity.  Canvas
\* resets fill it with blank snapshots; one pencil stroke, drawn while the
\* buffer is still short, tells its entries apart.
SbUntracked == UNCHANGED <<sbScript, draftLog, sbTaken, peVars, genVars>>
UndoSpecPoints == {Pt(100, 50)}
EarlyStroke == Len(sbHistory) <= 1

NextUndo ==
  \/ \E ratio \in Ratios, fit \in {100} :
       sbUpdateCanvasSize(ratio, fit) /\ SbUntracked
  \/ \E pos \in UndoSpecPoints :
       /\ sbActiveTool = "pencil"
       /\ EarlyStroke
       /\ sbHandlePointerDown(pos)
       /\ SbUntracked
  \/ sbActiveTool = "pencil" /\ sbHandlePointerUp /\ SbUntracked
  \/ undo /\ SbUntracked
  \/ redo /\ SbUntracked

SpecUndo == Init /\ [][NextUndo]_vars

\* SpecGen: calls of generateImage, one after the other, against providers
\* that answer, fail or take longer than the global timeout.
GenOnly == UNCHANGED <<peVars, sbVars>>

NextGen ==
  \/ \E config \in GenConfigs : generateImage(config) /\ GenOnly
  \/ \E ok \in BOOLEAN, data \in KieData : KieResponds(ok, data) /\ GenOnly
  \/ \E ok \in BOOLEAN : BlobResponds(ok) /\ GenOnly
  \/ FetchRejects /\ GenOnly
  \/ GlobalTimeout /\ GenOnly

SpecGen == Init /\ [][NextGen]_vars

\* SpecDraft: the autosave of the Sketchbook with a store that answers.  The
\* user picks a ratio, undoes, adds a layer, toggles the background once,
\* answers the resume dialog, leaves and comes back, while time passes.
PORTRAIT == [width |-> 900, height |-> 1200]
DraftRatios == {SQUARE, PORTRAIT}
DraftFits == {100}

NextDraft ==
  \/ \E fit \in DraftFits : checkDraft(TRUE, fit) /\ SbUntracked
  \/ handleNewProject /\ SbUntracked
  \/ \E fit \in DraftFits : handleNewProjectAfter(TRUE, fit) /\ SbUntracked
  \/ handleResumeProject /\ SbUntracked
  \/ \E fit \in DraftFits : handleResumeProjectAfter(TRUE, fit) /\ SbUntracked
  \/ \E fit \in DraftFits : restoreDraft(fit) /\ SbUntracked
  \/ \E ratio \in DraftRatios, fit \in DraftFits :
       EarlyStroke /\ sbUpdateCanvasSize(ratio, fit) /\ SbUntracked
  \/ undo /\ SbUntracked
  \/ addLayer /\ SbUntracked
  \/ sbBackgroundColor = "white" /\ toggleBackground /\ SbUntracked
  \/ Tick /\ SbUntracked
  \/ \E t \in sbTimers : autosaveTimeout(t) /\ SbUntracked
  \/ autosaveTimeoutAfter(TRUE) /\ SbUntracked
  \/ unmount /\ SbUntracked
  \/ mount /\ SbUntracked

SpecDraft == Init /\ [][NextDraft]_vars

\* SpecFail: the draft of the Sketchbook with a store whose calls resolve or
\* reject.  The user picks a ratio, draws one pencil stroke on the untouched
\* canvas, adds a layer, answers the resume dialog, leaves and comes back.
NextFail ==
  \/ \E ok \in BOOLEAN, fit \in DraftFits : checkDraft(ok, fit) /\ SbUntracked
  \/ handleNewProject /\ SbUntracked
  \/ \E ok \in BOOLEAN, fit \in DraftFits :
       handleNewProjectAfter(ok, fit) /\ SbUntracked
  \/ handleResumeProject /\ SbUntracked
  \/ \E ok \in BOOLEAN, fit \in DraftFits :
       handleResumeProjectAfter(ok, fit) /\ SbUntracked
  \/ \E fit \in DraftFits : restoreDraft(fit) /\ SbUntracked
  \/ \E ratio \in DraftRatios, fit \in DraftFits :
       EarlyStroke /\ sbUpdateCanvasSize(ratio, fit) /\ SbUntracked
  \/ \E pos \in UndoSpecPoints :
       /\ sbActiveTool = "pencil"
       /\ Len(sbHistory) = 0
       /\ sbHandlePointerDown(pos)
       /\ SbUntracked
  \/ sbActiveTool = "pencil" /\ sbHandlePointerUp /\ SbUntracked
  \/ addLayer /\ SbUntracked
  \/ Tick /\ SbUntracked
  \/ \E t \in sbTimers : autosaveTimeout(t) /\ SbUntracked
  \/ \E ok \in BOOLEAN : autosaveTimeoutAfter(ok) /\ SbUntracked
  \/ unmount /\ SbUntracked
  \/ mount /\ SbUntracked

SpecFail == Init /\ [][NextFail]_vars

\* SpecStore: the three draft calls of the gallery service in any order, with
\* drafts that carry the id 'latest' or another one, next to the resume
\* dialog of the Sketchbook.  draftLog holds the draft saved last since the
\* last delete and the result of the last get.
DraftInputs ==
  {[id |-> id, layers |-> INITIAL_LAYERS, canvasSize |-> size,
    pixels |-> BlankCanvases,
    backgroundColor |-> bg] :
     id \in {"latest", "other"}, size \in DraftRatios, bg \in {"white", "black"}}

sbComponent == <<sbSurface, sbLayers, sbBackgroundColor, sbShowResumeDialog,
                 sbMounted, sbTimers, saveTimeoutRef, sbPc, sbUncaught,
                 sbSinceChange>>

\* A call from outside the Sketchbook; a rejected call leaves the store.
CallSave(draft, ok) ==
  /\ draftStore' = (IF ok THEN saveSketchbookDraft(draftStore, draft) ELSE draftStore)
  /\ UNCHANGED sbComponent

CallGet == UNCHANGED <<draftStore, sbComponent>>

CallDelete(ok) ==
  /\ draftStore' = (IF ok THEN deleteSketchbookDraft(draftStore) ELSE draftStore)
  /\ UNCHANGED sbComponent

LogAfter(kind, draft, ok) ==
  IF ~ok THEN draftLog
  ELSE IF kind = "save" THEN [draftLog EXCEPT !.last = "save", !.saved = draft]
  ELSE IF kind = "delete" THEN [draftLog EXCEPT !.last = "delete", !.saved = NoDraft]
  ELSE [draftLog EXCEPT !.last = "get", !.got = getSketchbookDraft(draftStore)]

TrackStore(kind, draft, ok) ==
  /\ draftLog' = LogAfter(kind, draft, ok)
  /\ UNCHANGED <<sbScript, sbTaken, peVars, genVars>>

NextStore ==
  \/ \E draft \in DraftInputs, ok \in BOOLEAN :
       CallSave(draft, ok) /\ TrackStore("save", draft, ok)
  \/ CallGet /\ TrackStore("get", NoDraft, TRUE)
  \/ \E ok \in BOOLEAN : CallDelete(ok) /\ TrackStore("delete", NoDraft, ok)
  \/ \E fit \in DraftFits : checkDraft(TRUE, fit) /\ SbUntracked
  \/ handleNewProject /\ SbUntracked
  \/ \E fit \in DraftFits :
       handleNewProjectAfter(TRUE, fit) /\ TrackStore("delete", NoDraft, TRUE)

SpecStore == Init /\ [][NextStore]_vars

LayerPoints == {Pt(100, 50), Pt(50, 100)}

\* SpecResize: picks of the ratio menu between strokes, undo and redo, while
\* the undo buffer is short.
NextResize ==
  \/ \E ratio \in DraftRatios, fit \in DraftFits :
       /\ Len(sbHistory) <= MaxSbHistory
       /\ sbUpdateCanvasSize(ratio, fit)
       /\ SbUntracked
  \/ \E pos \in LayerPoints :
       /\ sbActiveTool = "pencil"
       /\ Len(sbHistory) <= MaxSbHistory
       /\ sbHandlePointerDown(pos)
       /\ SbUntracked
  \/ sbActiveTool = "pencil" /\ sbHandlePointerUp /\ SbUntracked
  \/ undo /\ SbUntracked
  \/ redo /\ SbUntracked

SpecResize == Init /\ [][NextResize]_vars

\* SpecLayers: strokes, undo and redo on several layers.  sbTaken names, for
\* every entry of the undo buffer, the layer whose canvas saveState read.
TakenAfter ==
  IF sbHistory' = sbHistory /\ sbHistoryIndex' # Len(sbHistory') - 1
  THEN sbTaken
  ELSE IF sbHistory' = sbHistory /\ sbHistoryIndex' = sbHistoryIndex
  THEN sbTaken
  ELSE LET kept == Append(SubSeq(sbTaken, 1, sbHistoryIndex + 1),
                          sbActiveLayerId')
       IN  IF Len(kept) > SbHistoryCap THEN Tail(kept) ELSE kept

TrackLayers == sbTaken' = TakenAfter /\ UNCHANGED <<sbScript, draftLog, peVars, genVars>>

NextLayers ==
  \/ \E fit \in DraftFits : draftStore = {} /\ checkDraft(TRUE, fit) /\ TrackLayers
  \/ addLayer /\ TrackLayers
  \/ \E id \in AllLayerIds : setActiveLayerId(id) /\ TrackLayers
  \/ \E pos \in LayerPoints :
       /\ sbActiveTool = "pencil"
       /\ Len(sbHistory) <= MaxSbHistory
       /\ sbHandlePointerDown(pos)
       /\ TrackLayers
  \/ sbActiveTool = "pencil" /\ sbHandlePointerUp /\ TrackLayers
  \/ undo /\ TrackLayers
  \/ redo /\ TrackLayers

SpecLayers == Init /\ [][NextLayers]_vars

\* SpecPersist: pencil strokes on a Sketchbook whose undo buffer is short or
\* full, with a store that accepts every write.  Canvas resets fill the
\* buffer up to its capacity, in one burst; time passes, and a timer that is
\* due fires and its write completes.
PersistFill == Len(sbHistory) <= 1 \/ Len(sbHistory) = SbHistoryCap
PersistBurst ==
  /\ Len(sbHistory) < SbHistoryCap
  /\ Len(sbHistory) <= 1 \/ sbSinceChange = 0

NextPersist ==
  \/ \E fit \in DraftFits :
       draftStore = {} /\ checkDraft(TRUE, fit) /\ SbUntracked
  \/ \E fit \in DraftFits :
       PersistBurst /\ sbUpdateCanvasSize(SQUARE, fit) /\ SbUntracked
  \/ \E pos \in UndoSpecPoints :
       /\ sbActiveTool = "pencil"
       /\ PersistFill
       /\ sbHandlePointerDown(pos)
       /\ SbUntracked
  \/ sbActiveTool = "pencil" /\ sbHandlePointerUp /\ SbUntracked
  \/ Tick /\ SbUntracked
  \/ \E t \in sbTimers : autosaveTimeout(t) /\ SbUntracked
  \/ autosaveTimeoutAfter(TRUE) /\ SbUntracked

SpecPersist ==
  /\ Init
  /\ [][NextPersist]_vars
  /\ WF_vars(Tick /\ SbUntracked)
  /\ WF_vars(\E t \in sbTimers : autosaveTimeout(t) /\ SbUntracked)
  /\ WF_vars(autosaveTimeoutAfter(TRUE) /\ SbUntracked)

\* SpecShape: the shape tools and the pencil on one canvas, without resize
\* of the canvas and without undo.
ShapeSpecTools == {"pencil", "rect", "circle", "line"}

NextShape ==
  \/ \E tool \in ShapeSpecTools : sbSetActiveTool(tool) /\ SbFew /\ SbUntracked
  \/ \E pos \in SbPoints : sbHandlePointerDown(pos) /\ SbFew /\ SbUntracked
  \/ \E pos \in SbPoints : sbHandlePointerMove(pos) /\ SbUntracked
  \/ sbHandlePointerUp /\ SbFew /\ SbUntracked

SpecShape == Init /\ [][NextShape]_vars

C2_Truncation ==
  [][(/\ history' # history
      /\ Len(history') > 0
      /\ ~(\E size \in UploadSizes : handleImageUpload(size)))
       => /\ history' = Append(Slice(history, historyIndex),
                               HistoryEntry(layers', layersRef', canvasSize'))
          /\ historyIndex' = Len(history') - 1]_vars

\* C3. Background protection: a delete path whose target is the background
\* leaves the layer stack and the history unchanged.
C3_BackgroundProtected ==
  [][lastDelete' = BACKGROUND
       => UNCHANGED <<layers, layersRef, history, historyIndex>>]_vars

\* A delete was called on the background, which is still there.
C3_Witness ==
  /\ lastDelete = BACKGROUND
  /\ HasLayer(layers, BACKGROUND)
  /\ Len(layers) = 2

C5_CropRebase ==
  [][(applyCrop /\ cropRect # NoRect)
       => /\ Len(layers') = Len(layers)
          /\ \A j \in 1..Len(layers) :
               /\ layers'[j].x = layers[j].x - cropRect.x
               /\ layers'[j].y = layers[j].y - cropRect.y
          /\ canvasSize' = [width |-> Round(cropRect.width),
                            height |-> Round(cropRect.height)]
          /\ Len(history') = Len(Slice(history, historyIndex)) + 1
          /\ historyIndex' = Len(history') - 1
          /\ history'[Len(history')].layers = layers'
          /\ history'[Len(history')].canvasSize = canvasSize']_vars

\* The state a crop with a fractional rect left: two layers moved by the
\* rect's origin, the canvas at the rounded size, recorded in the last entry.
C5_Witness ==
  /\ Len(layers) = 2
  /\ layers[1].x = 0 - (Px(20) + 1)
  /\ layers[1].y = 0 - Px(10)
  /\ canvasSize.width = Px(100)
  /\ historyIndex = Len(history) - 1
  /\ historyIndex > 0
  /\ history[historyIndex + 1].canvasSize = canvasSize
  /\ history[historyIndex + 1].layers = layers
  /\ history[historyIndex].canvasSize # canvasSize

\* C6. Mask-apply mutual exclusion: while isAiProcessingBrush stays set, no
\* second apply starts, no MaskOperation is appended and aiActivePath is not
\* extended.
C6_MaskFrozen ==
  [][(isAiProcessingBrush /\ isAiProcessingBrush')
       => /\ UNCHANGED <<aiMaskOperations, aiActivePath>>
          /\ aiApply'.pc = "pending" => aiApply' = aiApply]_vars

\* C7. Mask-apply failure: a failing step of handleAiBrushApply leaves the
\* layer stack, the history, its index and the mask operations unchanged,
\* surfaces an error and clears isAiProcessingBrush.
C7_FailureRecovered ==
  [][(AiBrushApplyThrow \/ AiBrushApplyLoadError)
       => /\ UNCHANGED <<layers, layersRef, history, historyIndex,
                         aiMaskOperations>>
          /\ alertMsg' = "aiImproveFail"
          /\ ~isAiProcessingBrush']_vars

\* C8. A gesture that began under another canvas size is ignored: its move
\* and up events do not modify the layers.
C8_StaleGestureIgnored ==
  [][(/\ gestureSize # NoSize
      /\ gestureSize # canvasSize
      /\ \/ \E p \in DragTo, d \in CropDeltas : handleDragMove(p, d)
         \/ handleDragEnd)
       => layers' = layers]_vars

\* C9. Freehand stroke commit: with the draw tool, a pointer-down at p0,
\* pointer-moves to p1..pk and a pointer-up append exactly one layer on top of
\* the stack, a drawing whose point list is <<p0, p1, ..., pk>>, and take one
\* history snapshot.
C9_StrokeCommit ==
  stroke.phase = "up"
    => /\ Len(layers) = Len(stroke.layers) + 1
       /\ SubSeq(layers, 1, Len(stroke.layers)) = stroke.layers
       /\ layers[Len(layers)].type = "drawing"
       /\ layers[Len(layers)].content.points = stroke.points
       /\ history = Append(stroke.history,
                           HistoryEntry(layers, layersRef, canvasSize))
       /\ historyIndex = Len(history) - 1

\* C10. Resize then commit: after the run "rect from (0,0) to (100,50), drag
\* from its bottom-right handle to (200,150), pick a non-shape tool" the last
\* committed shape is the rectangle spanning (0,0)-(200,150).
C10_ResizeCommit ==
  sbScript = 7
    => /\ Len(sbPixels) > 0
       /\ sbPixels[Len(sbPixels)].type = "rect"
       /\ Min2(sbPixels[Len(sbPixels)].start.x, sbPixels[Len(sbPixels)].end.x) = 0
       /\ Min2(sbPixels[Len(sbPixels)].start.y, sbPixels[Len(sbPixels)].end.y) = 0
       /\ Max2(sbPixels[Len(sbPixels)].start.x, sbPixels[Len(sbPixels)].end.x) = 200
       /\ Max2(sbPixels[Len(sbPixels)].start.y, sbPixels[Len(sbPixels)].end.y) = 150

\* C11. Switching tools while a shape is active commits it first: a switch
\* from a shape tool with an active shape to any other tool draws the shape
\* into the layer with one history snapshot and leaves no active shape.
C11_SwitchCommits ==
  [][(/\ sbActiveTool \in ShapeTools
      /\ sbActiveShape # NoShape
      /\ sbActiveTool' # sbActiveTool)
       => /\ sbActiveShape' = NoShape
          /\ sbPixels' = Append(sbPixels, sbActiveShape)
          /\ Len(sbHistory') = Len(Slice(sbHistory, sbHistoryIndex)) + 1
          /\ sbHistory'[Len(sbHistory')] = sbPixels'
          /\ sbHistoryIndex' = Len(sbHistory') - 1]_vars

C13_OverlayOnly ==
  [][/\ <<sbPixels, sbHistory, sbHistoryIndex>>' # <<sbPixels, sbHistory, sbHistoryIndex>>
          => \/ /\ sbActiveShape # NoShape
                /\ sbActiveTool' \notin ShapeTools
                /\ sbActiveTool' # sbActiveTool
                /\ sbActiveShape' = NoShape
                /\ sbPixels' = Append(sbPixels, sbActiveShape)
             \/ /\ sbActiveShape # NoShape
                /\ sbActiveTool \in ShapeTools
                /\ sbDragMode' = "create"
                /\ sbActiveShape'.start = sbActiveShape'.end
                /\ sbPixels' = Append(sbPixels, sbActiveShape)
             \/ /\ sbActiveTool \notin ShapeTools
                /\ sbIsDrawing
                /\ ~sbIsDrawing'
                /\ sbPixels' = Append(sbPixels, [type |-> "stroke",
                                                  start |-> sbStartPos,
                                                  end |-> sbLastPos])
     /\ (\E pos \in SbPoints : sbHandlePointerMove(pos))
          => UNCHANGED <<sbPixels, sbHistory, sbHistoryIndex>>
     /\ (sbActiveTool \in ShapeTools /\ sbHandlePointerUp)
          => /\ sbDragMode' = NULL
             /\ UNCHANGED <<sbActiveShape, sbPixels, sbHistory, sbHistoryIndex>>]_vars

\* A rect was moved and released and is still active, nothing is committed.
C13_Witness ==
  /\ sbActiveTool = "rect"
  /\ sbActiveShape = [type |-> "rect", start |-> Pt(100, 50), end |-> Pt(200, 150)]
  /\ sbDragMode = NULL
  /\ sbDragOffset = Pt(100, 50)
  /\ sbPixels = <<>>
  /\ sbHistory = <<>>
  /\ sbHistoryIndex = -1

\* C14. The crop rect stays inside the canvas: after every update by a crop
\* drag and after every preset, 0 <= x, 0 <= y, width > 0, height > 0,
\* x + width <= canvasSize.width and y + height <= canvasSize.height.
C14_CropInside ==
  [][(\/ \E d \in CropSpecDeltas : activeTool = "crop" /\ handleDragMove(NoPoint, d)
      \/ \E r \in AspectRatios : CropPreset(r))
       => /\ cropRect'.x >= 0
          /\ cropRect'.y >= 0
          /\ cropRect'.width > 0
          /\ cropRect'.height > 0
          /\ cropRect'.x + cropRect'.width <= canvasSize.width
          /\ cropRect'.y + cropRect'.height <= canvasSize.height]_vars

\* C15. Crop minimum size: on a canvas of at least 50x50, after every update
\* by a crop drag (corner resize or interior move) the crop rect has
\* width >= 50 and height >= 50.
C15_CropMinSize ==
  [][(/\ canvasSize.width >= Px(50)
      /\ canvasSize.height >= Px(50)
      /\ \E d \in CropSpecDeltas : activeTool = "crop" /\ handleDragMove(NoPoint, d))
       => /\ cropRect'.width >= Px(50)
          /\ cropRect'.height >= Px(50)]_vars

\* C16. A crop corner drag is anchored at the opposite corner: dragging tl,
\* tr, bl or br changes only the two edges adjacent to that corner; the two
\* edges of the opposite corner keep the values they had at drag start.
C16_CornerAnchored ==
  [][(/\ cropDragRef.handle \in {"tl", "tr", "bl", "br"}
      /\ \E d \in CropSpecDeltas : activeTool = "crop" /\ handleDragMove(NoPoint, d))
       => LET start == cropDragRef.startRect
              h == cropDragRef.handle
          IN  /\ h \in {"tl", "bl"}
                   => cropRect'.x + cropRect'.width = start.x + start.width
              /\ h \in {"tr", "br"} => cropRect'.x = start.x
              /\ h \in {"tl", "tr"}
                   => cropRect'.y + cropRect'.height = start.y + start.height
              /\ h \in {"bl", "br"} => cropRect'.y = start.y]_vars

\* C17. Crop aspect preset: a preset of ratio w:h on a canvas W x H sets the
\* crop rect to the largest rect of ratio w:h that fits in the canvas (one
\* dimension equal to the canvas dimension), centred; the 1:1 preset on a
\* 1600x900 canvas gives 900x900 at (350, 0).
C17_AspectPreset ==
  [][\A r \in AspectRatios :
       (r.w # 0 /\ CropPreset(r))
         => /\ cropRect'.width * r.h = cropRect'.height * r.w
            /\ cropRect'.width <= canvasSize.width
            /\ cropRect'.height <= canvasSize.height
            /\ \/ cropRect'.width = canvasSize.width
               \/ cropRect'.height = canvasSize.height
            /\ 2 * cropRect'.x = canvasSize.width - cropRect'.width
            /\ 2 * cropRect'.y = canvasSize.height - cropRect'.height
            /\ (r.w = r.h /\ canvasSize = [width |-> Px(1600), height |-> Px(900)])
                 => cropRect' = [x |-> Px(350), y |-> 0,
                                 width |-> Px(900), height |-> Px(900)]]_vars

\* The 1:1 preset was chosen on the 1600x900 canvas.
C17_Witness ==
  /\ canvasSize = [width |-> Px(1600), height |-> Px(900)]
  /\ activeTool = "crop"
  /\ cropRect = [x |-> Px(350), y |-> 0, width |-> Px(900), height |-> Px(900)]

\* C18. Crop cancel: after picking the crop tool, changing the crop rect by
\* drags and presets and picking another tool without applying, the layers,
\* the canvas size, the history and its index are as they were when the crop
\* tool was picked, and the crop rect is null.
C18_CropCancel ==
  cropBase.phase = "left"
    => /\ layers = cropBase.layers
       /\ canvasSize = cropBase.canvasSize
       /\ history = cropBase.history
       /\ historyIndex = cropBase.historyIndex
       /\ cropRect = NoRect

\* A crop session that changed the rect was left for another tool.
C18_Witness ==
  /\ cropBase.phase = "left"
  /\ cropBase.changed
  /\ activeTool = "adjust"
  /\ Len(layers) = 2
  /\ historyIndex = 1

\* C19. Transform invariant: for every visible non-background layer, with
\* any scale from 0.1 to 5, a pointer-down at the layer's geometric centre
\* (x + width/2, y + height/2) hits that layer and selects it when no layer
\* above contains the point.
C19_CentreHit ==
  [][\A i \in 1..Len(layers) :
       (/\ layers[i].visible
        /\ layers[i].id # BACKGROUND
        /\ activeTool \in HitTools
        /\ \A j \in (i + 1)..Len(layers) : ~layers[j].visible
        /\ handlePointerDown([x |-> layers[i].x + layers[i].width \div 2,
                              y |-> layers[i].y + layers[i].height \div 2]))
         => selectedLayerId' = layers[i].id]_vars

\* C20. Snapshot de-duplication: saveHistory called with the array of the
\* current history entry and an equal canvas size changes neither the
\* history nor the index; in every other case exactly one entry is appended.
C20_Dedup ==
  /\ lastSave.kind = "same"
       => history = lastSave.history /\ historyIndex = lastSave.historyIndex
  /\ lastSave.kind = "other"
       => /\ Len(history) = lastSave.historyIndex + 2
          /\ SubSeq(history, 1, lastSave.historyIndex + 1)
               = SubSeq(lastSave.history, 1, lastSave.historyIndex + 1)
          /\ history[Len(history)].layers = layers
          /\ history[Len(history)].canvasSize = canvasSize
          /\ historyIndex = Len(history) - 1

\* A slider was released without a change since the undo that restored the
\* current entry; the entry to redo is still there.
C20_Witness ==
  /\ lastSave.kind = "same"
  /\ Len(layers) = 2
  /\ historyIndex = 1
  /\ Len(history) = 3

\* C21. Undo/redo boundaries: handleUndo at index 0 (or with an empty
\* history) and handleRedo at the last index change nothing; otherwise they
\* move the index by exactly one, leave the history entries unchanged and set
\* the live layers and canvas size to those of the entry at the new index.
C21_UndoRedoBounds ==
  [][/\ handleUndo
          => IF historyIndex > 0
             THEN /\ historyIndex' = historyIndex - 1
                  /\ history' = history
                  /\ layers' = history[historyIndex' + 1].layers
                  /\ canvasSize' = history[historyIndex' + 1].canvasSize
             ELSE UNCHANGED <<layers, canvasSize, history, historyIndex>>
     /\ handleRedo
          => IF historyIndex < Len(history) - 1
             THEN /\ historyIndex' = historyIndex + 1
                  /\ history' = history
                  /\ layers' = history[historyIndex' + 1].layers
                  /\ canvasSize' = history[historyIndex' + 1].canvasSize
             ELSE UNCHANGED <<layers, canvasSize, history, historyIndex>>]_vars

\* Two undos went back over a crop to the first entry.
C21_Witness ==
  /\ historyIndex = 0
  /\ Len(history) = 3
  /\ layers = history[1].layers
  /\ canvasSize = history[1].canvasSize
  /\ canvasSize # history[2].canvasSize

\* C22. Deleting a non-background layer, by deleteSelectedLayer or by the
\* delete control of the layers panel, removes exactly that layer, keeps the
\* order of the others, takes one history snapshot and clears the selection
\* if the deleted layer was the selected one.
C22_DeleteLayer ==
  [][(\/ \E i \in 1..Len(layers) : LayersPanelDelete(i)
      \/ deleteSelectedLayer /\ selectedLayerId \notin {NULL, BACKGROUND})
       => \E k \in 1..Len(layers) :
            /\ layers[k].id # BACKGROUND
            /\ layers' = SubSeq(layers, 1, k - 1) \o SubSeq(layers, k + 1, Len(layers))
            /\ Len(history') = Len(Slice(history, historyIndex)) + 1
            /\ history'[Len(history')].layers = layers'
            /\ historyIndex' = Len(history') - 1
            /\ selectedLayerId = layers[k].id => selectedLayerId' = NULL]_vars

\* C23. Canvas selection by pointer-down, with a tool other than draw, crop
\* and ai_brush and no mask apply in flight: the selection becomes the
\* topmost visible non-background layer whose hit box contains the point, or
\* null if there is none; the background and invisible layers are never
\* selected by a canvas click.
C23_TopmostSelected ==
  [][\A p \in SelectPoints :
       (/\ handlePointerDown(p)
        /\ activeTool \notin {"draw", "crop", "ai_brush"}
        /\ ~isAiProcessingBrush)
         => LET inBox(l) == /\ l.x <= p.x
                            /\ 10 * p.x <= 10 * l.x + l.width * l.scale
                            /\ l.y <= p.y
                            /\ 10 * p.y <= 10 * l.y + l.height * l.scale
                cands == {i \in 1..Len(layers) :
                            /\ layers[i].visible
                            /\ layers[i].id # BACKGROUND
                            /\ inBox(layers[i])}
            IN  IF cands = {}
                THEN selectedLayerId' = NULL
                ELSE \E i \in cands :
                       /\ \A j \in cands : j <= i
                       /\ selectedLayerId' = layers[i].id]_vars

\* A press at (60, 50) selected the lower sticker: the sticker above it, at
\* scale 0.1, does not contain the point.
C23_Witness ==
  /\ Len(layers) = 3
  /\ layers[2].scale = 20
  /\ layers[3].scale = 1
  /\ dragStartRef = [x |-> Px(60), y |-> Px(50)]
  /\ selectedLayerId = layers[2].id

\* C24. Filter-adjustment updates merge: an adjust slider, a filter preset or
\* the AI enhance button changes only the named fields of the filter of the
\* target layer (the selected layer, or the background when nothing is
\* selected); the other filter fields, the rest of the style, every other
\* field of the layer and every other layer are unchanged.
C24_OnlyNamed(upd) ==
  /\ Len(layers') = Len(layers)
  /\ \A j \in 1..Len(layers) :
       IF layers[j].id = FilterTarget
       THEN /\ DOMAIN layers'[j] = DOMAIN layers[j]
            /\ \A f \in DOMAIN layers[j] \ {"filter"} : layers'[j][f] = layers[j][f]
            /\ \A k \in DOMAIN layers[j].filter :
                 layers'[j].filter[k] =
                   (IF k \in DOMAIN upd THEN upd[k] ELSE layers[j].filter[k])
       ELSE layers'[j] = layers[j]

C24_FilterMerge ==
  [][/\ \A a \in AdjustInputs :
          AdjustSliderChange(a.key, a.val) => C24_OnlyNamed(a.key :> a.val)
     /\ \A f \in FilterPresets : FilterPreset(f) => C24_OnlyNamed(f)
     /\ handleAiEnhance => C24_OnlyNamed(EnhanceUpdates)]_vars

\* A text layer whose filter got two fields from the sliders while its text
\* style stayed, over a background whose blur alone was changed.
C24_Witness ==
  /\ Len(layers) = 2
  /\ layers[1].filter = [DEFAULT_ADJUSTMENTS EXCEPT !.blur = 5]
  /\ layers[2].type = "text"
  /\ layers[2].filter = [NoFilter EXCEPT !.brightness = 50, !.blur = 5]
  /\ layers[2].style.color = brushColor

\* C25. History commit points: the pointer-move events of a layer drag and
\* the change events of a slider never change the history or the index; a
\* completed layer drag that moved the layer adds exactly one entry at
\* pointer-up, a slider release adds at most one entry, and a press and
\* release on a layer without a move between them adds none.
C25_GestureCommits ==
  /\ (drag.phase = "up" /\ drag.moved)
       => /\ Len(history) = drag.historyIndex + 2
          /\ SubSeq(history, 1, drag.historyIndex + 1)
               = SubSeq(drag.history, 1, drag.historyIndex + 1)
          /\ history[Len(history)].layers = layers
          /\ historyIndex = Len(history) - 1
  /\ (drag.phase = "up" /\ ~drag.moved)
       => history = drag.history /\ historyIndex = drag.historyIndex

C25_CommitPoints ==
  /\ []C25_GestureCommits
  /\ [][/\ \A p \in CommitPoints, d \in CropDeltas :
            handleDragMove(p, d) => UNCHANGED histVars
        /\ \A v \in ScaleValues : ScaleSliderChange(v) => UNCHANGED histVars
        /\ SliderRelease
             => /\ Len(history') <= historyIndex + 2
                /\ SubSeq(history', 1, historyIndex + 1)
                     = SubSeq(history, 1, historyIndex + 1)]_vars

\* C26. The Sketchbook undo buffer is bounded: the history never holds more
\* than 20 entries and the index is -1 with an empty history or else within
\* it; a save that would make 21 entries evicts the oldest one, and after any
\* save the index is that of the newly appended entry.
C26_Wellformed ==
  /\ Len(sbHistory) <= SbHistoryCap
  /\ \/ sbHistory = <<>> /\ sbHistoryIndex = -1
     \/ sbHistoryIndex \in 0..(Len(sbHistory) - 1)

C26_SaveStep ==
  \/ \E ratio \in Ratios, fit \in {100} : sbUpdateCanvasSize(ratio, fit)
  \/ sbActiveTool = "pencil" /\ sbIsDrawing /\ sbHandlePointerUp

C26_BoundedBuffer ==
  /\ []C26_Wellformed
  /\ [][C26_SaveStep
         => LET kept == Slice(sbHistory, sbHistoryIndex)
            IN /\ sbHistory' = (IF Len(kept) + 1 > SbHistoryCap
                                THEN Append(Tail(kept), sbPixels')
                                ELSE Append(kept, sbPixels'))
               /\ sbHistoryIndex' = Len(sbHistory') - 1]_vars

\* A full buffer whose first blank snapshot was evicted: the stroke's
\* snapshot, once the second entry, is now the oldest.
C26_Witness ==
  /\ Len(sbHistory) = SbHistoryCap
  /\ sbHistoryIndex = SbHistoryCap - 1
  /\ sbHistory[1] # <<>>
  /\ sbHistory[2] = <<>>

\* ---- C27
\* The autosave dependencies changed in the step.
C27_Change ==
  \/ sbLayers' # sbLayers
  \/ sbHistoryIndex' # sbHistoryIndex
  \/ sbCanvasSize' # sbCanvasSize
  \/ sbBackgroundColor' # sbBackgroundColor

\* A draft write was issued in the step.
C27_Write == sbPc.write = NoDraft /\ sbPc'.write # NoDraft

\* At most one timer is pending, and none once the Sketchbook is unmounted.
C27_OneTimer ==
  /\ Cardinality(sbTimers) <= 1
  /\ ~sbMounted => sbTimers = {}

\* C27: draft autosave is debounced.  At most one timer is pending; every
\* change of layers, historyIndex, canvasSize or backgroundColor leaves one
\* newly armed timer with the full delay and nothing else pending; a write is
\* issued only by a timer firing AutosaveDelay seconds after the most recent
\* change, it carries the state as of that change and leaves no timer
\* pending, so a burst gives one write; unmounting cancels the pending timer.
C27_Debounced ==
  /\ []C27_OneTimer
  /\ [][ /\ C27_Change =>
              sbTimers' = {Timer(saveTimeoutRef', sbLayers', sbCanvasSize',
                                 sbBackgroundColor')}
         /\ C27_Write =>
              /\ sbSinceChange = AutosaveDelay
              /\ \E t \in sbTimers : t.remaining = 0 /\ sbTimers' = sbTimers \ {t}
              /\ sbTimers' = {}
              /\ sbPc'.write.layers = sbLayers
              /\ sbPc'.write.canvasSize = sbCanvasSize
              /\ sbPc'.write.backgroundColor = sbBackgroundColor
              /\ sbPc'.write.pixels = Canvases
         /\ (sbMounted /\ ~sbMounted') => sbTimers' = {} ]_vars

\* A draft written after a burst of three changes: a second layer, a black
\* background and the portrait size.
C27_Witness ==
  \E d \in draftStore :
    /\ Len(d.layers) = 2
    /\ d.backgroundColor = "black"
    /\ d.canvasSize = PORTRAIT

\* ---- C28
\* The draft without the id it was saved with.
C28_Content(draft) ==
  [layers |-> draft.layers, canvasSize |-> draft.canvasSize,
   pixels |-> draft.pixels, backgroundColor |-> draft.backgroundColor]

\* The store holds at most one record, under 'latest'; the last get gave the
\* draft saved last, or null when none was saved since the last delete.
C28_OneSlot ==
  /\ Cardinality(draftStore) <= 1
  /\ \A r \in draftStore : r.id = "latest"
  /\ draftLog.last = "get" =>
       IF draftLog.saved = NoDraft
       THEN draftLog.got = NoDraft
       ELSE /\ draftLog.got # NoDraft
            /\ C28_Content(draftLog.got) = C28_Content(draftLog.saved)

\* C28: single draft slot.  After any sequence of save, get and delete calls
\* the draft store holds at most one record, always under the key 'latest'
\* whatever id the saved draft carried; get returns the most recently saved
\* draft, or null if none was saved since the last delete; 'New Drawing'
\* deletes the stored draft.
C28_SingleSlot ==
  /\ []C28_OneSlot
  /\ [][ (sbPc.newProject.state = "delete" /\ sbPc'.newProject.state = "idle")
           => draftStore' = {} ]_vars

\* A get that returned, under 'latest', a draft saved with another id on
\* the black background, once the draft check or 'New Drawing' was through.
C28_Witness ==
  /\ draftLog.last = "get"
  /\ draftLog.saved.id = "other"
  /\ draftLog.got.id = "latest"
  /\ draftLog.got.backgroundColor = "black"
  /\ sbPc.check = "done"
  /\ ~sbShowResumeDialog
  /\ sbHistory # <<>>

\* ---- C29
\* The draft check ended without opening the resume dialog: the read was
\* rejected or gave null.
C29_CheckFallback ==
  /\ sbPc.check = "get"
  /\ sbPc'.check = "done"
  /\ sbMounted'
  /\ ~sbShowResumeDialog'

\* 'Resume' ended without a draft to restore: the read was rejected or gave
\* null.
C29_ResumeFallback ==
  /\ sbPc.resume.state = "get"
  /\ sbPc'.resume.state = "idle"
  /\ sbMounted'

C29_Blank ==
  /\ ~sbShowResumeDialog'
  /\ sbCanvasSize' = SQUARE
  /\ sbPixels' = <<>>
  /\ sbUncaught' = sbUncaught

\* C29: a draft load failure falls back to a blank canvas.  When the read of
\* the draft fails at mount or at resume, or the draft is absent at resume,
\* the Sketchbook ends with the resume dialog closed, the canvas of the
\* default square size, blank, with the initial single layer, and no
\* failure propagated.
C29_Fallback ==
  [][ (C29_CheckFallback \/ C29_ResumeFallback)
        => C29_Blank /\ sbLayers' = INITIAL_LAYERS ]_vars

\* The fallback leaves the layer list as it finds it: a layer added while the
\* read was under way stays.
C29_FallbackKeepsLayers ==
  [][ (C29_CheckFallback \/ C29_ResumeFallback)
        => C29_Blank /\ sbLayers' = sbLayers ]_vars

\* ---- C30
\* 'New Drawing' ended in the step, the Sketchbook still mounted.
C30_NewProjectEnds ==
  /\ sbPc.newProject.state = "delete"
  /\ sbPc'.newProject.state = "idle"

\* C30: no draft I/O failure escapes uncaught.  No rejection of a draft store
\* call leaves the handler that issued the call, and 'New Drawing' ends with
\* the blank square canvas and its first snapshot, whether or not the delete
\* of the stored draft failed.
C30_NoEscape ==
  /\ [](sbUncaught = {})
  /\ [][ C30_NewProjectEnds =>
           /\ sbCanvasSize' = SQUARE
           /\ sbPixels' = <<>>
           /\ sbHistory' = SbSaved(sbPc.newProject.history,
                                   sbPc.newProject.historyIndex, <<>>)
           /\ sbHistoryIndex' = Len(sbHistory') - 1 ]_vars

\* 'New Drawing' initialises the canvas whenever it ends.
C30_NewProjectInitialises ==
  [][ C30_NewProjectEnds =>
        /\ sbHistory' = SbSaved(sbPc.newProject.history,
                                sbPc.newProject.historyIndex, <<>>)
        /\ sbHistoryIndex' = Len(sbHistory') - 1 ]_vars

\* ---- C31
\* The AI brush panel is shown with mask operations pending.
C31_Pending == MainUi /\ activeTool = "ai_brush" /\ Len(aiMaskOperations) > 0

\* The step is a click on the clear button: the mask is emptied while no
\* apply completes and the editor stays where it is.
C31_ClearStep ==
  /\ C31_Pending
  /\ aiMaskOperations' = <<>>
  /\ aiApply' = aiApply
  /\ editorMode' = editorMode

\* C31: clearing the mask is always available while mask operations are
\* pending.  In every state of the AI brush tool with a non-empty
\* aiMaskOperations the clear button is enabled, and the click empties
\* aiMaskOperations and aiActivePath and leaves layers and history.
C31_ClearAvailable ==
  /\ [](C31_Pending => MaskButtonsEnabled)
  /\ [][ C31_ClearStep =>
           /\ aiActivePath' = <<>>
           /\ UNCHANGED <<layers, history, historyIndex>> ]_vars

\* The click on the clear button does what the claim says of it.
C31_ClearEffect ==
  [][ C31_ClearStep =>
        /\ aiActivePath' = <<>>
        /\ UNCHANGED <<layers, history, historyIndex>> ]_vars

\* ---- C32
\* The providers attempted so far are the first ones of the order, each one
\* attempted after the failure of the one before.
C32_InOrder ==
  /\ Len(genLog) <= 3
  /\ \A i \in 1..Len(genLog) : genLog[i].provider = Providers[i]
  /\ \A i \in 1..(Len(genLog) - 1) : genLog[i].outcome = "failed"
  /\ genPc \in {"primary", "secondary", "tertiary"} =>
       /\ genLog[Len(genLog)].provider = genPc
       /\ genLog[Len(genLog)].outcome = "pending"

\* C32: image-generation fallback order.  generateImage attempts primary,
\* secondary, tertiary in this order, each only after every earlier one has
\* failed; it returns the result of the first provider that succeeds, fails
\* with the aggregate error exactly when all three have failed, and leaves
\* no timeout pending on either exit.
C32_FallbackOrder ==
  /\ C32_InOrder
  /\ genPc = "returned" =>
       /\ genLog[Len(genLog)].outcome = "ok"
       /\ genResult \notin {NULL, AllFailed}
       /\ ~genTimer
  /\ genPc = "failed" =>
       /\ Len(genLog) = 3
       /\ \A i \in 1..3 : genLog[i].outcome = "failed"
       /\ genResult = AllFailed
       /\ ~genTimer
  /\ (genPc \in {"returned", "failed"} /\ Len(genLog) = 3
        /\ \A i \in 1..3 : genLog[i].outcome = "failed") => genPc = "failed"

\* The tertiary provider's image, returned after the two others failed and
\* before the timeout ran out.
C32_Witness ==
  /\ genPc = "returned"
  /\ Len(genLog) = 3
  /\ genResult = "blob:tertiary"
  /\ ~genAborted

\* ---- C33
\* C33: the stored draft is never overwritten while the resume dialog is
\* showing.  From the opening of the dialog until Resume or New Drawing is
\* picked no autosave write is issued, also not by a timer armed before the
\* draft check completed, and the store keeps the draft found at mount.
C33_DialogKeepsDraft ==
  [][ /\ sbShowResumeDialog => ~C27_Write
      /\ (sbShowResumeDialog /\ sbShowResumeDialog') => draftStore' = draftStore
    ]_vars

\* No write is issued while the dialog is showing.
C33_NoWriteIssued == [][ sbShowResumeDialog => ~C27_Write ]_vars

\* ---- C34
\* The canvas holds committed pixels that the stored draft does not hold.
C34_Unsaved ==
  /\ sbPixels # <<>>
  /\ \A d \in draftStore : d.pixels[sbActiveLayerId] # sbPixels

\* A step without a change by the user.
C34_Quiet ==
  UNCHANGED <<sbIsDrawing, sbPixels, sbHistory, sbHistoryIndex, sbCanvasSize>>

\* C34: every committed sketchbook edit is eventually persisted.  Once the
\* user makes no further change, time passes and the store accepts the
\* writes, the draft comes to hold the pixels committed last, also when the
\* undo buffer is at its cap of 20 entries.
C34_EventuallyPersisted == (<>[][C34_Quiet]_vars) => <>[](~C34_Unsaved)

\* A step that commits pixels and calls saveState leaves the autosave timer
\* armed with the full delay.
C34_CommitArms ==
  [][ (sbPixels' # sbPixels /\ sbPixels' # <<>>)
        => \E t \in sbTimers' : t.remaining = AutosaveDelay ]_vars

\* ---- C35
\* undo or redo moved the index of the undo buffer to another entry.
C35_Restores ==
  /\ sbHistory' = sbHistory
  /\ sbHistoryIndex' # sbHistoryIndex
  /\ sbActiveLayerId' = sbActiveLayerId

\* C35: Sketchbook undo and redo are per layer.  After any interleaving of
\* strokes on several layers and changes of the active layer, undo and redo
\* put a snapshot only into the layer it was taken from, and every other
\* layer keeps its pixels, whichever layer is active.
C35_PerLayer ==
  [][ C35_Restores =>
        LET from == sbTaken[sbHistoryIndex' + 1]
            touched == IF sbHistoryIndex' < sbHistoryIndex
                       THEN sbTaken[sbHistoryIndex + 1]
                       ELSE sbTaken[sbHistoryIndex' + 1]
            after(id) == IF id = sbActiveLayerId' THEN sbPixels'
                         ELSE sbOthers'[id]
        IN  /\ after(from) = sbHistory[sbHistoryIndex' + 1]
            /\ \A id \in AllLayerIds \ {from} : after(id) = CanvasOf(id)
            /\ \A id \in AllLayerIds \ {touched} :
                 after(id) = CanvasOf(id) ]_vars

\* undo and redo put the snapshot into the active layer and leave the other
\* layers alone.
C35_IntoActive ==
  [][ C35_Restores =>
        /\ sbPixels' = sbHistory[sbHistoryIndex' + 1]
        /\ sbOthers' = sbOthers ]_vars

\* A snapshot taken from the first layer sits on the canvas of the second.
C35_Crossed ==
  /\ sbActiveLayerId = "layer-2"
  /\ sbHistoryIndex >= 0
  /\ sbHistoryIndex < Len(sbTaken)
  /\ sbTaken[sbHistoryIndex + 1] = "layer-1"
  /\ sbPixels = sbHistory[sbHistoryIndex + 1]
  /\ sbPixels # <<>>

\* ---- C36
\* The canvas size changed in the step: updateCanvasSize ran, its deferred
\* step included.
C36_Resized == sbCanvasSize' # sbCanvasSize

\* C36: changing the Sketchbook canvas size resets the undo buffer.  After
\* updateCanvasSize the buffer holds exactly one entry, the blank snapshot of
\* the active layer at the new size, and historyIndex is 0, however many
\* entries it held before; no snapshot of the old size is left to undo to.
C36_ResetsHistory ==
  [][ C36_Resized =>
        /\ sbHistory' = <<sbPixels'>>
        /\ sbPixels' = <<>>
        /\ sbHistoryIndex' = 0 ]_vars

\* The snapshot of the resized canvas is pushed after the entries the buffer
\* held up to historyIndex.
C36_PushesOntoOld ==
  [][ C36_Resized =>
        /\ sbHistory' = SbSaved(sbHistory, sbHistoryIndex, <<>>)
        /\ sbHistoryIndex' = Len(sbHistory') - 1 ]_vars

\* A stroke drawn at the square size is one undo away at another size.
C36_OldReachable ==
  /\ sbCanvasSize # SQUARE
  /\ sbPixels = <<>>
  /\ sbHistoryIndex > 0
  /\ sbHistory[sbHistoryIndex] # <<>>

\* ---- C37
\* C37: the PhotoEditor selection never dangles.  In every reachable state
\* selectedLayerId is null or the id of a layer of the current layer stack,
\* after any sequence of add, delete (both paths), undo, redo and crop.
C37_SelectionPresent ==
  \/ selectedLayerId = NULL
  \/ \E i \in 1..Len(layers) : layers[i].id = selectedLayerId

\* A step that leaves the selection on a layer that is gone restores a
\* history entry (undo, redo), or removes the selected layer without going
\* through deleteSelectedLayer.
C37_DanglesBy ==
  [][ (C37_SelectionPresent /\ ~C37_SelectionPresent')
        => \/ history' = history /\ historyIndex' # historyIndex
           \/ /\ selectedLayerId' = selectedLayerId
              /\ Len(layers') = Len(layers) - 1
              /\ lastDelete' = selectedLayerId ]_vars

\* ---- C38
\* The apply of the AI brush completed with success in the step.
C38_Completes ==
  /\ aiApply.pc = "pending"
  /\ aiApply' = NoApply
  /\ alertMsg' = "aiImproveSuccess"

\* C38: asynchronous completions do not discard concurrent edits.  When a
\* mask enhancement completes with success, the layer stack is the stack
\* current at completion with the content of the target layer replaced, the
\* history entries up to the current index are kept and the new entry
\* follows them: what was undone, redone or recorded while the operation was
\* in flight is retained.
C38_KeepsConcurrent ==
  [][ C38_Completes =>
        /\ layers' = Enhanced(layers, aiApply.target)
        /\ Slice(history', historyIndex) = Slice(history, historyIndex)
        /\ historyIndex' = historyIndex + 1
        /\ Len(history') = historyIndex' + 1
        /\ history'[historyIndex' + 1].layers = layers' ]_vars

\* The completion builds on the layers and the history of the render that
\* started the apply.
C38_BuildsOnStart ==
  [][ C38_Completes =>
        /\ layers' = Enhanced(aiApply.layers, aiApply.target)
        /\ Slice(history', aiApply.historyIndex)
             = Slice(aiApply.history, aiApply.historyIndex)
        /\ historyIndex' = aiApply.historyIndex + 1 ]_vars

\* ---- C39
\* C39: applyCrop changes only layer positions.  A crop commit leaves the
\* number and the order of the layers as they are, and every field of every
\* layer other than x and y: id, type, width, height, rotation, scale,
\* visible, style and content, the absolute points of a drawing included.
C39_OnlyPositions ==
  [][ (applyCrop /\ cropRect # NoRect)
        => /\ Len(layers') = Len(layers)
           /\ \A j \in 1..Len(layers) :
                [layers'[j] EXCEPT !.x = layers[j].x, !.y = layers[j].y]
                  = layers[j] ]_vars

\* A drawing on a cropped canvas: the layer moved with the crop, its points
\* are the ones the pointer drew.
C39_Witness ==
  /\ Len(layers) = 2
  /\ layers[2].type = "drawing"
  /\ layers[2].content.points = <<P10, P50>>
  /\ layers[2].x = 0 - (Px(20) + 1)
  /\ layers[1].x = 0 - (Px(20) + 1)
  /\ canvasSize.width = Px(100)

\* ---- C40
\* C40: PhotoEditor history well-formedness.  In every reachable state with
\* a non-empty layer stack, 0 <= historyIndex < history.length and the live
\* canvasSize is the canvasSize of history[historyIndex], after any sequence
\* of import, edits, crop commits, undo, redo and asynchronous completions.
C40_WellFormed ==
  Len(layers) > 0
    => /\ 0 <= historyIndex
       /\ historyIndex < Len(history)
       /\ canvasSize = history[historyIndex + 1].canvasSize

====
